---- MODULE Spec2Model ----
(***************************************************************************)
(* Model of the connection registry of snake_snatch (src/network.rs):      *)
(* NetworkManager / NetworkManagerImp / PeerInfo and the transport          *)
(* callbacks (closures) that PeerJS invokes on it.                          *)
(*                                                                          *)
(* The registry functions are pure operators over a registry value          *)
(* [handle_map, next_handle]; the actions apply them to the variable `imp`  *)
(* and record what the caller and the transport observe.                    *)
(***************************************************************************)
EXTENDS Integers, Sequences, FiniteSets, TLC

(* ------------------------------ bounds --------------------------------- *)
\* calls of listen, calls of connect and inbound connections in one run
MaxListen == 1
MaxConnect == 1
MaxAccept == 1
\* handles that may be allocated in one run (next_handle stays <= MaxHandles + 1)
MaxHandles == MaxListen + MaxConnect + MaxAccept
\* inbound envelopes the transport may deliver in one run
MaxMsgs == 2
\* envelopes that may be handed to data connections in one run
MaxSent == 2
\* envelopes that may be handed to data connections in one run of all the
\* caller's operations together
MaxCallSends == 1
\* stream ids that may be issued for one handle
MaxIds == 2
\* largest stream id used by callers and by inbound envelopes
MaxStream == 1

\* longest trail of a snake
MaxTrail == 5
\* messages in flight or queued, per direction, between an owner and a mirror
MaxChan == 2
\* latest game time of an owner frame, in units of 0.05 s
MaxNow == 8
\* in the run of a relaying host: latest game time of a frame of the owner and
\* of the host, and the clients that join after the mirror was created
MaxRelayNow == 4
MaxHostNow == 5
MaxLateClients == 2
\* in the run with stray events: latest game time of an owner frame, the stray
\* events in flight at a time and the longest trail
MaxStrayNow == 2
MaxStrays == 1
MaxStrayTrail == 3

\* processes that call be_client in one run
MaxClients == 4
\* clients that may be joining (connecting or introducing themselves) at a time
MaxJoining == 2

Streams == 0..MaxStream
\* handle values a caller may pass: 0 (invalid), allocated ones, one never allocated
HandleVals == 0..(MaxHandles + 1)
\* application messages handed to send
Msgs == {"m"}

(* ------------------------------ Option --------------------------------- *)
None == <<>>
Some(v) == <<v>>
IsSome(o) == o # None
Unwrap(o) == o[1]

(* ------------------------------ HashMap -------------------------------- *)
EmptyMap == <<>>
MapInsert(m, k, v) == [x \in (DOMAIN m) \cup {k} |-> IF x = k THEN v ELSE m[x]]
MapRemove(m, k) == [x \in (DOMAIN m) \ {k} |-> m[x]]

(* ------------------------------ messages ------------------------------- *)
\* NetData<MSG>
NetData(stream_id, msg) == [stream_id |-> stream_id, msg |-> msg]
\* NetUpdate<MSG>::NewPeer / ::Data
NewPeer(h) == [type |-> "NewPeer", handle |-> h]
Data(nd) == [type |-> "Data", data |-> nd]

\* serde_wasm_bindgen::to_value(&NetData): the JS object handed to DataConnection.send
to_value(nd) == [js |-> "object", stream_id |-> nd.stream_id, msg |-> nd.msg]
\* serde_wasm_bindgen::from_value::<NetData<MSG>>: Ok(NetData) for a well-formed
\* object, Err for anything else
from_value(data) ==
    IF data.js = "object"
    THEN [ok |-> TRUE, val |-> NetData(data.stream_id, data.msg)]
    ELSE [ok |-> FALSE, val |-> NetData(0, 0)]

\* NetworkHandle::invalid
invalid == 0

(* ------------------------------ PeerInfo ------------------------------- *)
PeerInfo_new(is_listen) ==
    [ _is_listen |-> is_listen,
      _peer |-> None,
      _peer_open_closure |-> None,
      _peer_connection_closure |-> None,
      _peer_error_closure |-> None,
      _dc |-> None,
      _dc_open_closure |-> None,
      _dc_data_closure |-> None,
      _dc_close_closure |-> None,
      _dc_error_closure |-> None,
      received_msgs |-> EmptyMap,
      next_stream_id |-> IF is_listen THEN 1 ELSE 2 ]

\* mutant: the new event is put in front of the queue
receive_front(info, stream_id, upd) ==
    [info EXCEPT !.received_msgs =
        IF stream_id \in DOMAIN @
        THEN [@ EXCEPT ![stream_id] = <<upd>> \o @]
        ELSE MapInsert(@, stream_id, <<upd>>)]

\* mutant: the new event replaces the queue (received_msgs.insert(stream_id, vec![upd]))
receive_overwrite(info, stream_id, upd) ==
    [info EXCEPT !.received_msgs = MapInsert(@, stream_id, <<upd>>)]

\* PeerInfo::receive: received_msgs.entry(stream_id).or_default().push(upd)
receive(info, stream_id, upd) ==
    [info EXCEPT !.received_msgs =
        IF stream_id \in DOMAIN @
        THEN [@ EXCEPT ![stream_id] = Append(@, upd)]
        ELSE MapInsert(@, stream_id, <<upd>>)]

(* --------------------------- NetworkManagerImp ------------------------- *)
\* NetworkManager::new
NetworkManager_new == [handle_map |-> EmptyMap, next_handle |-> 1]

\* mutant: the announcement creates the entry of src_handle when it is missing
\* (handle_map.entry(src_handle).or_insert_with(|| PeerInfo::new(true)))
open_closure_body_recreate(i, src_handle, dc_handle) ==
    IF src_handle \in DOMAIN i.handle_map
    THEN [i EXCEPT !.handle_map[src_handle] = receive(@, 0, NewPeer(dc_handle))]
    ELSE [i EXCEPT !.handle_map =
              MapInsert(@, src_handle, receive(PeerInfo_new(TRUE), 0, NewPeer(dc_handle)))]

\* body of the closure built by register_open_closure(src_handle, dc_handle)
open_closure_body(i, src_handle, dc_handle) ==
    IF src_handle \in DOMAIN i.handle_map
    THEN [i EXCEPT !.handle_map[src_handle] = receive(@, 0, NewPeer(dc_handle))]
    ELSE i

\* mutant: the envelope's stream id is ignored, everything goes to stream 0
data_closure_body_stream0(i, dc_handle, data) ==
    LET r == from_value(data) IN
    IF r.ok /\ dc_handle \in DOMAIN i.handle_map
    THEN [i EXCEPT !.handle_map[dc_handle] = receive(@, 0, Data(r.val))]
    ELSE i

\* body of the closure built by register_data_closure(dc_handle)
data_closure_body(i, dc_handle, data) ==
    LET r == from_value(data) IN
    IF r.ok
    THEN IF dc_handle \in DOMAIN i.handle_map
         THEN [i EXCEPT !.handle_map[dc_handle] =
                   receive(@, r.val.stream_id, Data(r.val))]
         ELSE i
    ELSE i

\* mutant: the close closure frees the handle
close_closure_body_remove(i, dc_handle) ==
    [i EXCEPT !.handle_map = MapRemove(@, dc_handle)]

\* body of the closures built by register_close_closure / register_error_closure
\* (log only, "TODO handle")
close_closure_body(i, dc_handle) == i
error_closure_body(i, dc_handle) == i

\* handle_new_connection: binds the data connection and its four closures
handle_new_connection(peer, src_handle, dc_handle) ==
    [peer EXCEPT
        !._dc = Some(dc_handle),
        !._dc_open_closure = Some([src_handle |-> src_handle, dc_handle |-> dc_handle]),
        !._dc_close_closure = Some([dc_handle |-> dc_handle]),
        !._dc_data_closure = Some([dc_handle |-> dc_handle]),
        !._dc_error_closure = Some([dc_handle |-> dc_handle])]

(* ----------------------------- NetworkManager -------------------------- *)
\* mutant: the data connection is bound when connect returns
connect_bound(i) ==
    LET handle == i.next_handle
        new_info == [PeerInfo_new(FALSE) EXCEPT
                        !._peer = Some(handle),
                        !._peer_open_closure = Some([handle |-> handle]),
                        !._peer_error_closure = Some([handle |-> handle])]
    IN [imp |-> [handle_map |-> MapInsert(i.handle_map, handle,
                                    handle_new_connection(new_info, handle, handle)),
                 next_handle |-> handle + 1],
        ret |-> handle]

\* mutant: next_handle is not advanced
connect_no_increment(i) ==
    LET handle == i.next_handle
        new_info == [PeerInfo_new(FALSE) EXCEPT
                        !._peer = Some(handle),
                        !._peer_open_closure = Some([handle |-> handle]),
                        !._peer_error_closure = Some([handle |-> handle])]
    IN [imp |-> [handle_map |-> MapInsert(i.handle_map, handle, new_info),
                 next_handle |-> handle],
        ret |-> handle]

\* NetworkManager::connect
connect(i) ==
    LET handle == i.next_handle
        new_info == [PeerInfo_new(FALSE) EXCEPT
                        !._peer = Some(handle),
                        !._peer_open_closure = Some([handle |-> handle]),
                        !._peer_error_closure = Some([handle |-> handle])]
    IN [imp |-> [handle_map |-> MapInsert(i.handle_map, handle, new_info),
                 next_handle |-> handle + 1],
        ret |-> handle]

\* mutant: connect's open closure binds the connection under the next handle value
connect_open_closure_body_next(i, handle) ==
    IF handle \in DOMAIN i.handle_map
    THEN [i EXCEPT !.handle_map[handle] = handle_new_connection(@, handle, handle + 1)]
    ELSE i

\* body of the open_closure built by connect (Peer::open of an outbound peer)
connect_open_closure_body(i, handle) ==
    IF handle \in DOMAIN i.handle_map
    THEN [i EXCEPT !.handle_map[handle] = handle_new_connection(@, handle, handle)]
    ELSE i

\* NetworkManager::listen
listen(i) ==
    LET handle == i.next_handle
        new_info == [PeerInfo_new(TRUE) EXCEPT
                        !._peer = Some(handle),
                        !._peer_open_closure = Some([handle |-> handle]),
                        !._peer_connection_closure = Some([handle |-> handle]),
                        !._peer_error_closure = Some([handle |-> handle])]
    IN [imp |-> [handle_map |-> MapInsert(i.handle_map, handle, new_info),
                 next_handle |-> handle + 1],
        ret |-> handle]

\* mutant: the open closure of an inbound connection reports to the connection's
\* own handle, as connect's does
connection_closure_body_self(i, handle) ==
    LET dc_handle == i.next_handle
        conn_peer == handle_new_connection(PeerInfo_new(TRUE), dc_handle, dc_handle)
    IN [imp |-> [handle_map |-> MapInsert(i.handle_map, dc_handle, conn_peer),
                 next_handle |-> dc_handle + 1],
        ret |-> dc_handle]

\* body of the connection_closure built by listen (Peer::connection)
connection_closure_body(i, handle) ==
    LET dc_handle == i.next_handle
        conn_peer == handle_new_connection(PeerInfo_new(TRUE), handle, dc_handle)
    IN [imp |-> [handle_map |-> MapInsert(i.handle_map, dc_handle, conn_peer),
                 next_handle |-> dc_handle + 1],
        ret |-> dc_handle]

\* mutant: close of a listener also removes the connections accepted through it
close_cascade(i, handle) ==
    IF handle \in DOMAIN i.handle_map
    THEN LET info == i.handle_map[handle]
             gone == {handle} \cup
                     {h \in DOMAIN i.handle_map :
                         /\ IsSome(i.handle_map[h]._dc_open_closure)
                         /\ Unwrap(i.handle_map[h]._dc_open_closure).src_handle = handle}
         IN [imp |-> [i EXCEPT !.handle_map = [x \in (DOMAIN @) \ gone |-> @[x]]],
             dc_close |-> info._dc,
             peer_destroy |-> info._peer]
    ELSE [imp |-> i, dc_close |-> None, peer_destroy |-> None]

\* mutant: close of a registered handle empties the whole registry
close_clear(i, handle) ==
    IF handle \in DOMAIN i.handle_map
    THEN LET info == i.handle_map[handle] IN
         [imp |-> [i EXCEPT !.handle_map = EmptyMap],
          dc_close |-> info._dc,
          peer_destroy |-> info._peer]
    ELSE [imp |-> i, dc_close |-> None, peer_destroy |-> None]

\* NetworkManager::close: the registry after the call, and the transport objects
\* it closes (dc.close()) and destroys (peer.destroy())
close(i, handle) ==
    IF handle \in DOMAIN i.handle_map
    THEN LET info == i.handle_map[handle] IN
         [imp |-> [i EXCEPT !.handle_map = MapRemove(@, handle)],
          dc_close |-> info._dc,
          peer_destroy |-> info._peer]
    ELSE [imp |-> i, dc_close |-> None, peer_destroy |-> None]

\* mutant: the envelope is handed to the handle's connection whether one is
\* bound or not
send_unbound(i, handle, stream_id, msg) ==
    LET send_msg == NetData(stream_id, msg)
        encoded == to_value(send_msg)
    IN IF handle \in DOMAIN i.handle_map
       THEN [imp |-> i, dc |-> Some(handle), encoded |-> encoded]
       ELSE [imp |-> i, dc |-> None, encoded |-> encoded]

\* mutant: the envelope does not carry the caller's stream id
send_stream0(i, handle, stream_id, msg) ==
    LET send_msg == NetData(0, msg)
        encoded == to_value(send_msg)
    IN IF handle \in DOMAIN i.handle_map /\ IsSome(i.handle_map[handle]._dc)
       THEN [imp |-> i, dc |-> i.handle_map[handle]._dc, encoded |-> encoded]
       ELSE [imp |-> i, dc |-> None, encoded |-> encoded]

\* NetworkManager::send: the data connection the envelope is handed to (if any)
\* and the encoded envelope
send(i, handle, stream_id, msg) ==
    LET send_msg == NetData(stream_id, msg)
        encoded == to_value(send_msg)
    IN IF handle \in DOMAIN i.handle_map
       THEN LET info == i.handle_map[handle] IN
            IF IsSome(info._dc)
            THEN [imp |-> i, dc |-> info._dc, encoded |-> encoded]
            ELSE [imp |-> i, dc |-> None, encoded |-> encoded]
       ELSE [imp |-> i, dc |-> None, encoded |-> encoded]

\* mutant: the counter advances by one
new_stream_id_by_one(i, handle) ==
    IF handle \in DOMAIN i.handle_map
    THEN [imp |-> [i EXCEPT !.handle_map[handle].next_stream_id = @ + 1],
          ret |-> Some(i.handle_map[handle].next_stream_id)]
    ELSE [imp |-> i, ret |-> None]

\* NetworkManager::new_stream_id
new_stream_id(i, handle) ==
    IF handle \in DOMAIN i.handle_map
    THEN LET info == i.handle_map[handle]
             ret == info.next_stream_id
         IN [imp |-> [i EXCEPT !.handle_map[handle].next_stream_id = @ + 2],
             ret |-> Some(ret)]
    ELSE [imp |-> i, ret |-> None]

\* mutant: the queue is returned but not taken
get_handle_events_peek(i, handle, stream_id) ==
    IF handle \in DOMAIN i.handle_map
       /\ stream_id \in DOMAIN i.handle_map[handle].received_msgs
    THEN [imp |-> i, ret |-> i.handle_map[handle].received_msgs[stream_id]]
    ELSE [imp |-> i, ret |-> <<>>]

\* mutant: the lookup creates the queue (received_msgs.entry(stream_id).or_default())
get_handle_events_or_default(i, handle, stream_id) ==
    IF handle \in DOMAIN i.handle_map
    THEN LET info == i.handle_map[handle] IN
         IF stream_id \in DOMAIN info.received_msgs
         THEN [imp |-> [i EXCEPT !.handle_map[handle].received_msgs[stream_id] = <<>>],
               ret |-> info.received_msgs[stream_id]]
         ELSE [imp |-> [i EXCEPT !.handle_map[handle].received_msgs =
                              MapInsert(@, stream_id, <<>>)],
               ret |-> <<>>]
    ELSE [imp |-> i, ret |-> <<>>]

\* NetworkManager::get_handle_events
get_handle_events(i, handle, stream_id) ==
    IF handle \in DOMAIN i.handle_map
    THEN LET info == i.handle_map[handle] IN
         IF stream_id \in DOMAIN info.received_msgs
         THEN [imp |-> [i EXCEPT !.handle_map[handle].received_msgs[stream_id] = <<>>],
               ret |-> info.received_msgs[stream_id]]
         ELSE [imp |-> i, ret |-> <<>>]
    ELSE [imp |-> i, ret |-> <<>>]


(* ======================== the snake layer (src/snake.rs) ================= *)
\* Pos2d, on a grid small enough to enumerate. Two points have the same x + y.
Pos(x, y) == [x |-> x, y |-> y]
Pts == {Pos(0, 0), Pos(10, 0), Pos(30, 0), Pos(0, 30)}
\* square of Pos2d::dist
Dist2(p, q) == (p.x - q.x) * (p.x - q.x) + (p.y - q.y) * (p.y - q.y)
\* a snake segment is at most 20.0 long (OwnSnakeImp::think)
SegLen == 20
\* SnakePeer sends at most one update every 0.1 s; time is counted in units of 0.05 s
Throttle == 2

\* Interpolable::new(p, speed) with set_end(q) and advance(t): cur() is a point of
\* the segment from p to q, q itself when speed * t covers the distance
OnWay(p, q) ==
    {r \in Pts :
        /\ (r.x - p.x) * (q.y - p.y) = (r.y - p.y) * (q.x - p.x)
        /\ (r.x - p.x) * (q.x - p.x) + (r.y - p.y) * (q.y - p.y) >= 0
        /\ (r.x - p.x) * (q.x - p.x) + (r.y - p.y) * (q.y - p.y) <= Dist2(p, q)
        /\ Dist2(p, r) <= Dist2(p, q)}

\* SnakeMsg and the NetMsg that carries it
EndUpdate(prev_segs, prev_segs_sum, last_segs) ==
    [type |-> "EndUpdate", prev_segs |-> prev_segs,
     prev_segs_sum |-> prev_segs_sum, last_segs |-> last_segs]
FullUpdateReq == [type |-> "FullUpdateReq"]
NetMsg_Snake(msg) == [type |-> "Snake", snake |-> msg]

\* sum of x + y over a sequence of points
RECURSIVE SumXY(_)
SumXY(ps) == IF ps = <<>> THEN 0 ELSE ps[1].x + ps[1].y + SumXY(Tail(ps))

\* SnakeData::points_sum: the slice snake_points[0..num_points] is defined only
\* for num_points <= len; a caller that asks for more is marked (oob) and the
\* sum is taken over the points there are
points_sum(data, num_points) ==
    SumXY(SubSeq(data.snake_points, 1,
                 IF num_points <= Len(data.snake_points)
                 THEN num_points ELSE Len(data.snake_points)))

\* mutant: read_snake_msgs stops at the first update that is not a SnakeMsg
RECURSIVE read_snake_msgs_stop(_)
read_snake_msgs_stop(updates) ==
    IF updates = <<>> \/ ~(updates[1].type = "Data" /\ updates[1].data.msg.type = "Snake")
    THEN <<>>
    ELSE <<updates[1].data.msg.snake>> \o read_snake_msgs_stop(Tail(updates))

\* read_snake_msgs: the SnakeMsgs among the polled updates, in order; everything
\* else is logged and skipped
IsSnakeUpd(upd) == upd.type = "Data" /\ upd.data.msg.type = "Snake"
read_snake_msgs(updates) ==
    LET snk == SelectSeq(updates, IsSnakeUpd)
    IN [k \in 1..Len(snk) |-> snk[k].data.msg.snake]

\* what a role hands to game.network().send
Sent(peer, stream_id, msg) == [peer |-> peer, stream_id |-> stream_id, msg |-> msg]

\* mutant: the snake shrinks while it has more than one point
OwnSnakeImp_think_shrink1(data, is_down, mouse_pos, cur) ==
    LET pts == data.snake_points
        n == Len(pts)
    IN IF is_down /\ mouse_pos # pts[n]
       THEN LET moved == [pts EXCEPT ![n] = cur] IN
            [data EXCEPT !.snake_points =
                             IF Dist2(cur, pts[n - 1]) > SegLen * SegLen
                             THEN Append(moved, cur) ELSE moved,
                         !.points_changed = TRUE]
       ELSE IF ~is_down /\ n > 1
       THEN [data EXCEPT !.snake_points = SubSeq(pts, 1, n - 1),
                         !.points_changed = TRUE]
       ELSE data

\* mutant: a segment is split as soon as it is 20 long
OwnSnakeImp_think_pushatleast(data, is_down, mouse_pos, cur) ==
    LET pts == data.snake_points
        n == Len(pts)
    IN IF is_down /\ mouse_pos # pts[n]
       THEN LET moved == [pts EXCEPT ![n] = cur] IN
            [data EXCEPT !.snake_points =
                             IF Dist2(cur, pts[n - 1]) >= SegLen * SegLen
                             THEN Append(moved, cur) ELSE moved,
                         !.points_changed = TRUE]
       ELSE IF ~is_down /\ n > 2
       THEN LET segment_start == pts[n - 1] IN
            [data EXCEPT !.snake_points =
                             IF cur = segment_start
                             THEN SubSeq(pts, 1, n - 1)
                             ELSE [pts EXCEPT ![n] = cur],
                         !.points_changed = TRUE]
       ELSE data

\* mutant: the shrinking point that reaches the segment start stays in the trail
OwnSnakeImp_think_nopop(data, is_down, mouse_pos, cur) ==
    LET pts == data.snake_points
        n == Len(pts)
    IN IF is_down /\ mouse_pos # pts[n]
       THEN LET moved == [pts EXCEPT ![n] = cur] IN
            [data EXCEPT !.snake_points =
                             IF Dist2(cur, pts[n - 1]) > SegLen * SegLen
                             THEN Append(moved, cur) ELSE moved,
                         !.points_changed = TRUE]
       ELSE IF ~is_down /\ n > 2
       THEN [data EXCEPT !.snake_points = [pts EXCEPT ![n] = cur],
                         !.points_changed = TRUE]
       ELSE data

\* OwnSnakeImp::think. cur is what the Interpolable returns after advance: a point
\* of OnWay(last point, mouse position) when growing, of OnWay(last point,
\* segment start) when shrinking.
OwnSnakeImp_think(data, is_down, mouse_pos, cur) ==
    LET pts == data.snake_points
        n == Len(pts)
    IN IF is_down /\ mouse_pos # pts[n]
       THEN LET moved == [pts EXCEPT ![n] = cur] IN
            [data EXCEPT !.snake_points =
                             IF Dist2(cur, pts[n - 1]) > SegLen * SegLen
                             THEN Append(moved, cur) ELSE moved,
                         !.points_changed = TRUE]
       ELSE IF ~is_down /\ n > 2
       THEN LET segment_start == pts[n - 1] IN
            [data EXCEPT !.snake_points =
                             IF cur = segment_start
                             THEN SubSeq(pts, 1, n - 1)
                             ELSE [pts EXCEPT ![n] = cur],
                         !.points_changed = TRUE]
       ELSE data

\* the end the Interpolable of OwnSnakeImp::think is given
OwnTarget(data, is_down, mouse_pos) ==
    LET pts == data.snake_points
        n == Len(pts)
    IN IF is_down /\ mouse_pos # pts[n] THEN mouse_pos
       ELSE IF ~is_down /\ n > 2 THEN pts[n - 1]
       ELSE pts[n]

\* mutant: the checksum is compared before the length
remote_on_msg_sumfirst(remote, data, msg) ==
    IF msg.type = "EndUpdate"
    THEN IF Len(data.snake_points) < msg.prev_segs
            \/ points_sum(data, msg.prev_segs) # msg.prev_segs_sum
         THEN [data |-> data,
               sent |-> <<Sent(remote.peer, remote.stream_id, NetMsg_Snake(FullUpdateReq))>>,
               oob |-> Len(data.snake_points) < msg.prev_segs]
         ELSE [data |-> [data EXCEPT
                            !.snake_points = SubSeq(@, 1, msg.prev_segs) \o msg.last_segs,
                            !.points_changed = TRUE],
               sent |-> <<>>, oob |-> FALSE]
    ELSE [data |-> data, sent |-> <<>>, oob |-> FALSE]

\* mutant: the last segments replace the whole trail of the mirror
remote_on_msg_replace(remote, data, msg) ==
    IF msg.type = "EndUpdate"
    THEN IF Len(data.snake_points) < msg.prev_segs
            \/ points_sum(data, msg.prev_segs) # msg.prev_segs_sum
         THEN [data |-> data,
               sent |-> <<Sent(remote.peer, remote.stream_id, NetMsg_Snake(FullUpdateReq))>>,
               oob |-> FALSE]
         ELSE [data |-> [data EXCEPT !.snake_points = msg.last_segs,
                                     !.points_changed = TRUE],
               sent |-> <<>>, oob |-> FALSE]
    ELSE [data |-> data, sent |-> <<>>, oob |-> FALSE]

\* mutant: an accepted update never truncates the trail below its first point
remote_on_msg_keepfirst(remote, data, msg) ==
    IF msg.type = "EndUpdate"
    THEN IF Len(data.snake_points) < msg.prev_segs
            \/ points_sum(data, msg.prev_segs) # msg.prev_segs_sum
         THEN [data |-> data,
               sent |-> <<Sent(remote.peer, remote.stream_id, NetMsg_Snake(FullUpdateReq))>>,
               oob |-> FALSE]
         ELSE [data |-> [data EXCEPT
                            !.snake_points =
                                SubSeq(@, 1, IF msg.prev_segs = 0 THEN 1 ELSE msg.prev_segs)
                                    \o msg.last_segs,
                            !.points_changed = TRUE],
               sent |-> <<>>, oob |-> FALSE]
    ELSE [data |-> data, sent |-> <<>>, oob |-> FALSE]

\* mutant: the request for a full update goes out on the next stream of the peer
remote_on_msg_otherstream(remote, data, msg) ==
    IF msg.type = "EndUpdate"
    THEN IF Len(data.snake_points) < msg.prev_segs
            \/ points_sum(data, msg.prev_segs) # msg.prev_segs_sum
         THEN [data |-> data,
               sent |-> <<Sent(remote.peer, remote.stream_id + 2, NetMsg_Snake(FullUpdateReq))>>,
               oob |-> FALSE]
         ELSE [data |-> [data EXCEPT
                            !.snake_points = SubSeq(@, 1, msg.prev_segs) \o msg.last_segs,
                            !.points_changed = TRUE],
               sent |-> <<>>, oob |-> FALSE]
    ELSE [data |-> data, sent |-> <<>>, oob |-> FALSE]

\* the closure RemoteSnakeImp::think passes to read_snake_msgs, for one message:
\* the data and the messages sent; oob says that points_sum sliced the trail
\* past its end (the length is tested first, so it never does)
remote_on_msg(remote, data, msg) ==
    IF msg.type = "EndUpdate"
    THEN IF Len(data.snake_points) < msg.prev_segs
         THEN [data |-> data,
               sent |-> <<Sent(remote.peer, remote.stream_id, NetMsg_Snake(FullUpdateReq))>>,
               oob |-> FALSE]
         ELSE IF points_sum(data, msg.prev_segs) # msg.prev_segs_sum
         THEN [data |-> data,
               sent |-> <<Sent(remote.peer, remote.stream_id, NetMsg_Snake(FullUpdateReq))>>,
               oob |-> FALSE]
         ELSE [data |-> [data EXCEPT
                            !.snake_points = SubSeq(@, 1, msg.prev_segs) \o msg.last_segs,
                            !.points_changed = TRUE],
               sent |-> <<>>, oob |-> FALSE]
    ELSE [data |-> data, sent |-> <<>>, oob |-> FALSE]

\* RemoteSnakeImp::think on the polled updates upds
RECURSIVE remote_fold(_, _, _, _)
remote_fold(remote, data, msgs, sent) ==
    IF msgs = <<>>
    THEN [data |-> data, sent |-> sent]
    ELSE LET r == remote_on_msg(remote, data, msgs[1])
         IN remote_fold(remote, r.data, Tail(msgs), sent \o r.sent)

RemoteSnakeImp_think(remote, data, upds) ==
    remote_fold(remote, data, read_snake_msgs(upds), <<>>)

\* mutant: the incremental update counts one segment too few as unchanged
IncrUpdate_short(data) ==
    LET pts == data.snake_points IN
    IF Len(pts) > 2
    THEN EndUpdate(Len(pts) - 3, points_sum(data, Len(pts) - 3),
                   SubSeq(pts, Len(pts) - 1, Len(pts)))
    ELSE EndUpdate(0, 0, pts)

\* mutant: the checksum of the incremental update covers one point too many
IncrUpdate_sumlong(data) ==
    LET pts == data.snake_points IN
    IF Len(pts) > 2
    THEN EndUpdate(Len(pts) - 2, SumXY(SubSeq(pts, 1, Len(pts) - 1)),
                   SubSeq(pts, Len(pts) - 1, Len(pts)))
    ELSE EndUpdate(0, 0, pts)

\* the incremental update SnakePeer::think sends for the trail of data
IncrUpdate(data) ==
    LET pts == data.snake_points IN
    IF Len(pts) > 2
    THEN EndUpdate(Len(pts) - 2, points_sum(data, Len(pts) - 2),
                   SubSeq(pts, Len(pts) - 1, Len(pts)))
    ELSE EndUpdate(0, 0, pts)

\* the snapshot SnakePeer::think sends for a FullUpdateReq
FullUpdate(data) == EndUpdate(0, 0, data.snake_points)

\* mutant: a snapshot reply restarts the throttle
SnakePeer_think_replyresets(peer, data, upds, now) ==
    LET msgs == read_snake_msgs(upds)
        reqs == SelectSeq(msgs, LAMBDA m : m.type = "FullUpdateReq")
        replies == [k \in 1..Len(reqs) |->
                       Sent(peer.peer, peer.stream_id, NetMsg_Snake(FullUpdate(data)))]
    IN IF data.points_changed /\ peer.next_send_time < now
       THEN [peer |-> [peer EXCEPT !.next_send_time = now + Throttle],
             sent |-> Append(replies, Sent(peer.peer, peer.stream_id,
                                           NetMsg_Snake(IncrUpdate(data))))]
       ELSE [peer |-> IF reqs = <<>> THEN peer
                      ELSE [peer EXCEPT !.next_send_time = now + Throttle],
             sent |-> replies]

\* mutant: the throttle lets an update through when next_send_time is reached
SnakePeer_think_atleast(peer, data, upds, now) ==
    LET msgs == read_snake_msgs(upds)
        reqs == SelectSeq(msgs, LAMBDA m : m.type = "FullUpdateReq")
        replies == [k \in 1..Len(reqs) |->
                       Sent(peer.peer, peer.stream_id, NetMsg_Snake(FullUpdate(data)))]
    IN IF data.points_changed /\ peer.next_send_time <= now
       THEN [peer |-> [peer EXCEPT !.next_send_time = now + Throttle],
             sent |-> Append(replies, Sent(peer.peer, peer.stream_id,
                                           NetMsg_Snake(IncrUpdate(data))))]
       ELSE [peer |-> peer, sent |-> replies]

\* SnakePeer::think on the polled updates upds at game time now
SnakePeer_think(peer, data, upds, now) ==
    LET msgs == read_snake_msgs(upds)
        reqs == SelectSeq(msgs, LAMBDA m : m.type = "FullUpdateReq")
        replies == [k \in 1..Len(reqs) |->
                       Sent(peer.peer, peer.stream_id, NetMsg_Snake(FullUpdate(data)))]
    IN IF data.points_changed /\ peer.next_send_time < now
       THEN [peer |-> [peer EXCEPT !.next_send_time = now + Throttle],
             sent |-> Append(replies,
                             Sent(peer.peer, peer.stream_id, NetMsg_Snake(IncrUpdate(data))))]
       ELSE [peer |-> peer, sent |-> replies]

\* Snake::new_local, Snake::new_remote, Snake::add_peer
new_local(name, start_points) ==
    [data |-> [snake_points |-> start_points, name |-> name, points_changed |-> FALSE],
     own_imp |-> Some([own |-> TRUE]),
     remote_imp |-> None,
     peers |-> <<>>]
new_remote(name, peer, stream_id, start_points) ==
    [data |-> [snake_points |-> start_points, name |-> name, points_changed |-> FALSE],
     own_imp |-> None,
     remote_imp |-> Some([peer |-> peer, stream_id |-> stream_id]),
     peers |-> <<>>]
add_peer(snake, peer, stream_id) ==
    [snake EXCEPT !.peers = Append(@, [peer |-> peer, stream_id |-> stream_id,
                                       next_send_time |-> 0])]

\* Snake::get_start_points: snake_points[..2], defined for trails of 2 points or more
get_start_points(snake) == SubSeq(snake.data.snake_points, 1, 2)

\* mutant: every SnakePeer is throttled by the clock of the first one
RECURSIVE peers_fold_shared(_, _, _, _, _, _)
peers_fold_shared(peers, data, peer_upds, now, k, acc) ==
    IF k > Len(peers)
    THEN acc
    ELSE LET r == SnakePeer_think([peers[k] EXCEPT !.next_send_time = peers[1].next_send_time],
                                  data, peer_upds[k], now)
         IN peers_fold_shared(peers, data, peer_upds, now, k + 1,
                              [peers |-> Append(acc.peers, r.peer), sent |-> acc.sent \o r.sent])

\* the peers loop of Snake::think: every SnakePeer thinks on the same data
RECURSIVE peers_fold(_, _, _, _, _, _)
peers_fold(peers, data, peer_upds, now, k, acc) ==
    IF k > Len(peers)
    THEN acc
    ELSE LET r == SnakePeer_think(peers[k], data, peer_upds[k], now)
         IN peers_fold(peers, data, peer_upds, now, k + 1,
                       [peers |-> Append(acc.peers, r.peer), sent |-> acc.sent \o r.sent])

\* mutant: the tick starts with the dirty flag the last tick left
Snake_think_noclear(snake, remote_upds, peer_upds, in) ==
    LET d0 == snake.data
        d1 == IF IsSome(snake.own_imp)
              THEN OwnSnakeImp_think(d0, in.is_down, in.mouse_pos, in.cur)
              ELSE d0
        r2 == IF IsSome(snake.remote_imp)
              THEN RemoteSnakeImp_think(Unwrap(snake.remote_imp), d1, remote_upds)
              ELSE [data |-> d1, sent |-> <<>>]
        r3 == peers_fold(snake.peers, r2.data, peer_upds, in.now, 1,
                         [peers |-> <<>>, sent |-> <<>>])
    IN [snake |-> [snake EXCEPT !.data = r2.data, !.peers = r3.peers],
        sent |-> r2.sent \o r3.sent]

\* Snake::think. remote_upds and peer_upds[k] are what get_handle_events returns
\* to the remote role and to the k-th peer role; in holds the frame's mouse state,
\* the Interpolable's result and the game time. Returns the snake and the
\* messages handed to send, in order.
Snake_think(snake, remote_upds, peer_upds, in) ==
    LET d0 == [snake.data EXCEPT !.points_changed = FALSE]
        d1 == IF IsSome(snake.own_imp)
              THEN OwnSnakeImp_think(d0, in.is_down, in.mouse_pos, in.cur)
              ELSE d0
        r2 == IF IsSome(snake.remote_imp)
              THEN RemoteSnakeImp_think(Unwrap(snake.remote_imp), d1, remote_upds)
              ELSE [data |-> d1, sent |-> <<>>]
        r3 == peers_fold(snake.peers, r2.data, peer_upds, in.now, 1,
                         [peers |-> <<>>, sent |-> <<>>])
    IN [snake |-> [snake EXCEPT !.data = r2.data, !.peers = r3.peers],
        sent |-> r2.sent \o r3.sent]


(* ======================== the game layer (src/lib.rs) ==================== *)
\* the processes of one game: the host and the clients that connect to it
Host == 0
Clients == 1..MaxClients
Procs == {Host} \cup Clients

\* NetMsg::StartPointsUpdate / ::SnakeIntro / ::Ping
StartPointsUpdate(pts) == [type |-> "StartPointsUpdate", pts |-> pts]
SnakeIntro(name, snake_stream_id, start_points) ==
    [type |-> "SnakeIntro", name |-> name, snake_stream_id |-> snake_stream_id,
     start_points |-> start_points]
Ping(time) == [type |-> "Ping", time |-> time]

\* GameState as init_state builds it
GameState_new ==
    [network |-> NetworkManager_new,
     snakes |-> <<>>,
     listen_handle |-> invalid,
     connect_handle |-> invalid,
     client_handle |-> invalid,
     possible_start_points |->
        << <<Pos(200, 200), Pos(300, 300)>>,
           <<Pos(600, 200), Pos(500, 300)>>,
           <<Pos(200, 600), Pos(300, 500)>>,
           <<Pos(600, 600), Pos(500, 500)>> >>]

\* a process runs until a panic aborts it
NoPanic == "none"

\* The progress of one call into a GameState: the state, the envelopes handed to
\* data connections so far (in order) and the panic that stopped it, if any.
Running(g) == [g |-> g, out |-> <<>>, panic |-> NoPanic]

\* self.imp.network().send(handle, stream_id, msg)
game_send(st, handle, stream_id, msg) ==
    LET r == send(st.g.network, handle, stream_id, msg) IN
    IF IsSome(r.dc)
    THEN [st EXCEPT !.out = Append(@, [dc |-> Unwrap(r.dc), encoded |-> r.encoded])]
    ELSE st

\* GameState::consume_start_points
RECURSIVE consume_from(_, _, _)
consume_from(pts, start_points, i) ==
    IF i > Len(pts) THEN pts
    ELSE IF pts[i] = start_points
         THEN SubSeq(pts, 1, i - 1) \o SubSeq(pts, i + 1, Len(pts))
         ELSE consume_from(pts, start_points, i + 1)
consume_start_points(g, start_points) ==
    [g EXCEPT !.possible_start_points = consume_from(@, start_points, 1)]

\* intro_snakes with every introduction carrying the id the first allocation
\* returned
RECURSIVE intro_snakes_sameid(_, _)
intro_snakes_sameid(st, k) ==
    IF st.panic # NoPanic \/ k > Len(st.g.snakes) THEN st
    ELSE LET r == new_stream_id(st.g.network, st.g.client_handle) IN
         IF r.ret = None
         THEN [st EXCEPT !.panic = "new_stream_id(client_handle).unwrap()"]
         ELSE LET new_stream == Unwrap(r.ret)
                  g1 == [st.g EXCEPT
                            !.snakes[k] = add_peer(@, st.g.client_handle, new_stream)]
              IN intro_snakes_sameid(
                     game_send([st EXCEPT !.g = g1], g1.client_handle, 0,
                               SnakeIntro("IamHost", new_stream, get_start_points(g1.snakes[k]))),
                     k + 1)

\* GameState::think, listen loop: the introductions of the existing snakes to a
\* new client, from snake k on
RECURSIVE intro_snakes(_, _)
intro_snakes(st, k) ==
    IF st.panic # NoPanic \/ k > Len(st.g.snakes) THEN st
    ELSE LET r == new_stream_id(st.g.network, st.g.client_handle) IN
         IF r.ret = None
         THEN [st EXCEPT !.panic = "new_stream_id(client_handle).unwrap()"]
         ELSE IF Len(st.g.snakes[k].data.snake_points) < 2
         THEN [st EXCEPT !.panic = "snake_points[..2]", !.g.network = r.imp]
         ELSE LET new_stream == Unwrap(r.ret)
                  g1 == [st.g EXCEPT
                            !.network = r.imp,
                            !.snakes[k] = add_peer(@, st.g.client_handle, new_stream)]
              IN intro_snakes(
                     game_send([st EXCEPT !.g = g1], g1.client_handle, 0,
                               SnakeIntro("IamHost", new_stream, get_start_points(g1.snakes[k]))),
                     k + 1)

\* on_listen_event with the introductions sent before the advertisement
on_listen_event_introsfirst(st, msg) ==
    IF msg.type = "NewPeer"
    THEN LET g1 == [st.g EXCEPT !.client_handle = msg.handle]
             s1 == intro_snakes([st EXCEPT !.g = g1], 1)
         IN game_send(s1, g1.client_handle, 0, StartPointsUpdate(g1.possible_start_points))
    ELSE st

\* GameState::think, body of the loop over the events of listen_handle
on_listen_event(st, msg) ==
    IF msg.type = "NewPeer"
    THEN LET g1 == [st.g EXCEPT !.client_handle = msg.handle] IN
         intro_snakes(
             game_send([st EXCEPT !.g = g1], g1.client_handle, 0,
                       StartPointsUpdate(g1.possible_start_points)),
             1)
    ELSE st

\* the answer to a Ping of the two stream-0 loops: both send on connect_handle
on_ping(st, time) ==
    IF time > 0
    THEN game_send(st, st.g.connect_handle, 0, Ping(-time))
    ELSE st

\* GameState::think, body of the loop over the events of connect_handle
on_connect_event(st, msg) ==
    IF msg.type # "Data" THEN st
    ELSE LET m == msg.data.msg IN
    IF m.type = "Ping" THEN on_ping(st, m.time)
    ELSE IF m.type = "SnakeIntro"
    THEN [st EXCEPT !.g.snakes =
             Append(@, new_remote(m.name, st.g.connect_handle, m.snake_stream_id,
                                  m.start_points))]
    ELSE IF m.type = "StartPointsUpdate"
    THEN IF m.pts = <<>>
         THEN [st EXCEPT !.panic = "pts[0]"]
         ELSE LET g1 == [st.g EXCEPT !.snakes = Append(@, new_local("ClientSnake", m.pts[1]))]
                  r == new_stream_id(g1.network, g1.connect_handle)
              IN IF r.ret = None
                 THEN [st EXCEPT !.g = g1, !.panic = "new_stream_id(connect_handle).unwrap()"]
                 ELSE LET new_stream == Unwrap(r.ret)
                          g2 == [g1 EXCEPT
                                    !.network = r.imp,
                                    !.snakes[1] = add_peer(@, g1.connect_handle, new_stream)]
                      IN game_send([st EXCEPT !.g = g2], g2.connect_handle, 0,
                                   SnakeIntro("ClientSnake", new_stream, m.pts[1]))
    ELSE st

\* GameState::think, body of the loop over the events of client_handle
on_client_event(st, msg) ==
    IF msg.type # "Data" THEN st
    ELSE LET m == msg.data.msg IN
    IF m.type = "Ping" THEN on_ping(st, m.time)
    ELSE IF m.type = "SnakeIntro"
    THEN LET g1 == [st.g EXCEPT !.snakes =
                       Append(@, new_remote(m.name, st.g.client_handle, m.snake_stream_id,
                                            m.start_points))]
         IN [st EXCEPT !.g = consume_start_points(g1, m.start_points)]
    ELSE st

on_event(loop, st, msg) ==
    IF loop = "listen" THEN on_listen_event(st, msg)
    ELSE IF loop = "connect" THEN on_connect_event(st, msg)
    ELSE on_client_event(st, msg)

\* one of the three loops of GameState::think over the events a poll returned
RECURSIVE events_fold(_, _, _)
events_fold(loop, st, msgs) ==
    IF st.panic # NoPanic \/ msgs = <<>> THEN st
    ELSE events_fold(loop, on_event(loop, st, msgs[1]), Tail(msgs))

\* get_handle_events(handle, 0) and the loop over what it returned
poll_loop(loop, st, handle) ==
    IF st.panic # NoPanic THEN st
    ELSE LET e == get_handle_events(st.g.network, handle, 0) IN
         events_fold(loop, [st EXCEPT !.g.network = e.imp], e.ret)

\* the polls of one Snake::think: its remote role's stream and its peer roles'
SnakePolls(snake) ==
    (IF IsSome(snake.remote_imp)
     THEN <<[peer |-> Unwrap(snake.remote_imp).peer,
             stream_id |-> Unwrap(snake.remote_imp).stream_id]>>
     ELSE <<>>)
    \o [j \in 1..Len(snake.peers) |->
           [peer |-> snake.peers[j].peer, stream_id |-> snake.peers[j].stream_id]]

RECURSIVE drain(_, _)
drain(i, polls) ==
    IF polls = <<>> THEN i
    ELSE drain(get_handle_events(i, polls[1].peer, polls[1].stream_id).imp, Tail(polls))

RECURSIVE send_all(_, _)
send_all(st, sent) ==
    IF sent = <<>> THEN st
    ELSE send_all(game_send(st, sent[1].peer, sent[1].stream_id, sent[1].msg), Tail(sent))

\* GameState::think, the loop over the snakes, from snake k on. The mouse is up
\* (GameImp::is_mouse_down as init_state sets it).
RECURSIVE snakes_think(_, _)
snakes_think(st, k) ==
    IF st.panic # NoPanic \/ k > Len(st.g.snakes) THEN st
    ELSE LET snake == st.g.snakes[k]
             nm == st.g.network
             pts == snake.data.snake_points
             remote_upds ==
                 IF IsSome(snake.remote_imp)
                 THEN get_handle_events(nm, Unwrap(snake.remote_imp).peer,
                                        Unwrap(snake.remote_imp).stream_id).ret
                 ELSE <<>>
             peer_upds ==
                 [j \in 1..Len(snake.peers) |->
                     get_handle_events(nm, snake.peers[j].peer, snake.peers[j].stream_id).ret]
             r == Snake_think(snake, remote_upds, peer_upds,
                              [is_down |-> FALSE, mouse_pos |-> Pos(0, 0),
                               cur |-> pts[Len(pts)], now |-> 0])
             g1 == [st.g EXCEPT !.network = drain(nm, SnakePolls(snake)),
                                !.snakes[k] = r.snake]
         IN snakes_think(send_all([st EXCEPT !.g = g1], r.sent), k + 1)

\* GameState::think: the three stream-0 loops, then every snake's think
GameState_think(g) ==
    LET s1 == poll_loop("listen", Running(g), g.listen_handle)
        s2 == poll_loop("connect", s1, s1.g.connect_handle)
        s3 == poll_loop("client", s2, s2.g.client_handle)
    IN snakes_think(s3, 1)

\* GameState::be_host
be_host(g) ==
    LET r == listen(g.network)
        g1 == [g EXCEPT !.network = r.imp, !.listen_handle = r.ret]
    IN IF g1.possible_start_points = <<>>
       THEN [Running(g1) EXCEPT !.panic = "possible_start_points.remove(0)"]
       ELSE Running([g1 EXCEPT
                        !.possible_start_points = Tail(@),
                        !.snakes = Append(@, new_local("Myself", Head(g1.possible_start_points)))])

\* GameState::be_client
be_client(g) ==
    LET r == connect(g.network) IN
    Running([g EXCEPT !.network = r.imp, !.connect_handle = r.ret])

\* GameState::ping_connections at game time now
ping_connections(g, now) ==
    game_send(game_send(Running(g), g.connect_handle, 0, Ping(now)),
              g.client_handle, 0, Ping(now))

\* The transport between a client and the host: how far the connection got,
\* the host's handle of it, whether the DataConnection reported open on each
\* side, and the envelopes in flight in each direction.
Link_new ==
    [stage |-> "idle", host_dc |-> invalid, host_open |-> FALSE, client_open |-> FALSE,
     to_host |-> <<>>, to_client |-> <<>>]


(* ------------------------------ state ---------------------------------- *)
VARIABLES
    imp,        \* NetworkManager.imp: [handle_map, next_handle]
    net,        \* the transport objects of each handle: Peer and DataConnection state
    wire,       \* envelopes handed to DataConnection.send, per data connection
    ret,        \* the last operation or callback and what it returned
    delivered,  \* history: events the callbacks delivered, per (handle, stream)
    polled,     \* history: concatenation of the results of get_handle_events, per (handle, stream)
    issued,     \* history: ids returned by new_stream_id, per handle
    allocLog,   \* history: handles in the order they were allocated, with their origin
    closed,     \* history: allocated handles that were passed to close
    nmsg,       \* number of inbound payloads produced by the transport so far
    nsent       \* number of envelopes handed to data connections so far

\* a snake, its mirror in another process and the stream between them
VARIABLES
    osnake,     \* the Snake of the owning process: own_imp and one SnakePeer
    msnake,     \* the Snake of the mirroring process: remote_imp
    o2m,        \* envelopes sent by the owner's SnakePeer and not yet polled by the mirror
    m2o,        \* envelopes sent by the mirror and not yet polled by the SnakePeer
    now,        \* GameImp.now of the owning process
    osentAt,    \* history: per SnakePeer of osnake, the game time of its last incremental update (-1: none)
    mnow,       \* GameImp.now of the mirroring process (it matters once the mirror has peer roles)
    relayed,    \* what the last frame of the mirroring process sent on the streams of msnake's peer roles
    msentAt,    \* history: per SnakePeer of msnake, the game time of its last incremental update (-1: none)
    lastFrame   \* history: the last frame of a snake when strays are in play: whose it was, the
                \* snake before it, the updates it polled and the envelopes it sent

\* the game processes: one host and the clients that connect to it
VARIABLES
    games,      \* GameState of each process: its NetworkManager, handles, snakes, start points
    links,      \* the transport between a client and the host: connection stage, envelopes in flight
    lpeer,      \* the host's listening Peer: "none", "new" (created) or "open"
    panicked    \* the panic that aborted a process ("none" while it runs)

regVars == <<imp, net, wire, ret, delivered, polled, issued, allocLog, closed, nmsg, nsent>>
snakeVars == <<osnake, msnake, o2m, m2o, now, osentAt, mnow, relayed, msentAt, lastFrame>>
gameVars == <<games, links, lpeer, panicked>>
vars == <<imp, net, wire, ret, delivered, polled, issued, allocLog, closed, nmsg, nsent,
          osnake, msnake, o2m, m2o, now, osentAt, mnow, relayed, msentAt, lastFrame,
          games, links, lpeer, panicked>>

H == 1..MaxHandles

\* the start points of the snake, the handle each process knows the other by and
\* the stream id the introduction carried
StartPoints == <<Pos(0, 0), Pos(30, 0)>>
PeerHandle == 1
SnakeStream == 1
\* the host's handle of the j-th client that joins later, and the stream id the
\* host's mirror snake is introduced with on each of these connections
LateHandle(j) == PeerHandle + j
RelayStream == 3
\* no frame recorded
NoFrame == [by |-> "none", before |-> <<>>, upds |-> <<>>, sent |-> <<>>]


Registered(h) == h \in DOMAIN imp.handle_map
Info(h) == imp.handle_map[h]
\* the queue of (h, s) in registry i, None when the handle or the stream key is absent
QueueOf(i, h, s) ==
    IF h \in DOMAIN i.handle_map /\ s \in DOMAIN i.handle_map[h].received_msgs
    THEN Some(i.handle_map[h].received_msgs[s])
    ELSE None
\* the events queued for (h, s) in registry i
Queued(i, h, s) == IF IsSome(QueueOf(i, h, s)) THEN Unwrap(QueueOf(i, h, s)) ELSE <<>>

Allocated == {allocLog[k].handle : k \in DOMAIN allocLog}
NumOf(kind) == Cardinality({k \in DOMAIN allocLog : allocLog[k].kind = kind})
Origin(h) == CHOOSE e \in {allocLog[k] : k \in DOMAIN allocLog} : e.handle = h

\* What the last operation or callback was and what it returned. h and s name its
\* target when the target handle has been allocated (0, 0 otherwise); again says
\* that the step before was the same operation on the same target, and first is
\* the number of values that step returned.
Result(op, h, s, val) ==
    LET t == IF h \in Allocated THEN h ELSE 0
        u == IF h \in Allocated THEN s ELSE 0
        again == t # 0 /\ ret.op = op /\ ret.h = t /\ ret.s = u
    IN [op |-> op, h |-> t, s |-> u, val |-> val,
        again |-> again, first |-> IF again THEN Len(ret.val) ELSE 0]

Init ==
    /\ imp = NetworkManager_new
    /\ net = [h \in H |-> [peer |-> "none", dc |-> "none"]]
    /\ wire = [h \in H |-> <<>>]
    /\ ret = [op |-> "new", h |-> 0, s |-> 0, val |-> <<>>, again |-> FALSE, first |-> 0]
    /\ delivered = [p \in H \X Streams |-> <<>>]
    /\ polled = [p \in H \X Streams |-> <<>>]
    /\ issued = [h \in H |-> <<>>]
    /\ allocLog = <<>>
    /\ closed = {}
    /\ nmsg = 0
    /\ nsent = 0
    /\ osnake = add_peer(new_local("Myself", StartPoints), PeerHandle, SnakeStream)
    /\ msnake = new_remote("IamHost", PeerHandle, SnakeStream, StartPoints)
    /\ o2m = <<>>
    /\ m2o = <<>>
    /\ now = 0
    /\ osentAt = <<-1>>
    /\ mnow = 0
    /\ relayed = <<>>
    /\ msentAt = <<>>
    /\ lastFrame = NoFrame
    /\ games = [p \in Procs |-> GameState_new]
    /\ links = [c \in Clients |-> Link_new]
    /\ lpeer = "none"
    /\ panicked = [p \in Procs |-> NoPanic]

(* --------------------------- caller operations ------------------------- *)
Listen ==
    /\ NumOf("listen") < MaxListen
    /\ LET r == listen(imp) IN
        /\ imp' = r.imp
        /\ net' = [net EXCEPT ![r.ret].peer = "new"]
        /\ allocLog' = Append(allocLog, [handle |-> r.ret, kind |-> "listen", src |-> r.ret])
        /\ ret' = Result("listen", r.ret, 0, <<r.ret>>)
    /\ UNCHANGED <<wire, delivered, polled, issued, closed, nmsg, nsent>>
    /\ UNCHANGED <<snakeVars, gameVars>>

Connect ==
    /\ NumOf("connect") < MaxConnect
    /\ LET r == connect(imp) IN
        /\ imp' = r.imp
        /\ net' = [net EXCEPT ![r.ret].peer = "new"]
        /\ allocLog' = Append(allocLog, [handle |-> r.ret, kind |-> "connect", src |-> r.ret])
        /\ ret' = Result("connect", r.ret, 0, <<r.ret>>)
    /\ UNCHANGED <<wire, delivered, polled, issued, closed, nmsg, nsent>>
    /\ UNCHANGED <<snakeVars, gameVars>>

Close(h) ==
    /\ LET r == close(imp, h) IN
        /\ imp' = r.imp
        /\ net' = [x \in H |->
                    [peer |-> IF r.peer_destroy = Some(x) THEN "destroyed" ELSE net[x].peer,
                     dc |-> IF r.dc_close = Some(x) THEN "closed" ELSE net[x].dc]]
    /\ closed' = IF h \in Allocated THEN closed \cup {h} ELSE closed
    \* the histories are kept for registered handles only
    /\ delivered' = [p \in H \X Streams |-> IF p[1] = h THEN <<>> ELSE delivered[p]]
    /\ polled' = [p \in H \X Streams |-> IF p[1] = h THEN <<>> ELSE polled[p]]
    /\ issued' = [x \in H |-> IF x = h THEN <<>> ELSE issued[x]]
    /\ ret' = Result("close", h, 0, <<>>)
    /\ UNCHANGED <<wire, allocLog, nmsg, nsent>>
    /\ UNCHANGED <<snakeVars, gameVars>>

Send(h, s, m) ==
    /\ LET r == send(imp, h, s, m) IN
        /\ IsSome(r.dc) => nsent < MaxSent
        /\ imp' = r.imp
        /\ wire' = IF IsSome(r.dc)
                   THEN [wire EXCEPT ![Unwrap(r.dc)] = Append(@, r.encoded)]
                   ELSE wire
        /\ ret' = Result("send", h, s, IF IsSome(r.dc) THEN <<r.encoded>> ELSE <<>>)
        /\ nsent' = IF IsSome(r.dc) THEN nsent + 1 ELSE nsent
    /\ UNCHANGED <<net, delivered, polled, issued, allocLog, closed, nmsg>>
    /\ UNCHANGED <<snakeVars, gameVars>>

NewStreamId(h) ==
    /\ Registered(h) => Len(issued[h]) < MaxIds
    /\ LET r == new_stream_id(imp, h) IN
        /\ imp' = r.imp
        /\ issued' = IF IsSome(r.ret) /\ h \in H
                     THEN [issued EXCEPT ![h] = Append(@, Unwrap(r.ret))]
                     ELSE issued
        /\ ret' = Result("new_stream_id", h, 0, r.ret)
    /\ UNCHANGED <<net, wire, delivered, polled, allocLog, closed, nmsg, nsent>>
    /\ UNCHANGED <<snakeVars, gameVars>>

GetHandleEvents(h, s) ==
    /\ LET r == get_handle_events(imp, h, s) IN
        /\ imp' = r.imp
        /\ polled' = IF h \in H
                     THEN [polled EXCEPT ![<<h, s>>] = @ \o r.ret]
                     ELSE polled
        /\ ret' = Result("poll", h, s, r.ret)
    /\ UNCHANGED <<net, wire, delivered, issued, allocLog, closed, nmsg, nsent>>
    /\ UNCHANGED <<snakeVars, gameVars>>

(* --------------------------- transport callbacks ----------------------- *)
\* A closure is owned by the PeerInfo that stores it: it can run only while that
\* PeerInfo is in handle_map (a dropped wasm-bindgen Closure throws in JS
\* without entering Rust).

\* Peer "open" of an outbound peer (connect's open_closure): starts the data connection
ConnectOpenClosure(h) ==
    /\ Registered(h) /\ IsSome(Info(h)._peer_open_closure) /\ ~Info(h)._is_listen
    /\ net[h].peer = "new"
    /\ imp' = connect_open_closure_body(imp, Unwrap(Info(h)._peer_open_closure).handle)
    /\ net' = [net EXCEPT ![h] = [peer |-> "open", dc |-> "connecting"]]
    /\ ret' = Result("peer_open", h, 0, <<>>)
    /\ UNCHANGED <<wire, delivered, polled, issued, allocLog, closed, nmsg, nsent>>
    /\ UNCHANGED <<snakeVars, gameVars>>

\* Peer "open" of a listening peer (listen's open_closure): log only
ListenOpenClosure(h) ==
    /\ Registered(h) /\ IsSome(Info(h)._peer_open_closure) /\ Info(h)._is_listen
    /\ net[h].peer = "new"
    /\ net' = [net EXCEPT ![h].peer = "open"]
    /\ ret' = Result("listen_open", h, 0, <<>>)
    /\ UNCHANGED <<imp, wire, delivered, polled, issued, allocLog, closed, nmsg, nsent>>
    /\ UNCHANGED <<snakeVars, gameVars>>

\* Peer "connection" on a listening peer (listen's connection_closure)
ConnectionClosure(h) ==
    /\ Registered(h) /\ IsSome(Info(h)._peer_connection_closure)
    /\ net[h].peer = "open"
    /\ NumOf("accept") < MaxAccept
    /\ LET r == connection_closure_body(imp, Unwrap(Info(h)._peer_connection_closure).handle) IN
        /\ imp' = r.imp
        /\ net' = [net EXCEPT ![r.ret].dc = "connecting"]
        /\ allocLog' = Append(allocLog, [handle |-> r.ret, kind |-> "accept", src |-> h])
        /\ ret' = Result("connection", h, 0, <<r.ret>>)
    /\ UNCHANGED <<wire, delivered, polled, issued, closed, nmsg, nsent>>
    /\ UNCHANGED <<snakeVars, gameVars>>

\* DataConnection "open"
DcOpenClosure(h) ==
    /\ Registered(h) /\ IsSome(Info(h)._dc_open_closure)
    /\ net[h].dc = "connecting"
    /\ LET c == Unwrap(Info(h)._dc_open_closure) IN
        imp' = open_closure_body(imp, c.src_handle, c.dc_handle)
    /\ net' = [net EXCEPT ![h].dc = "open"]
    /\ delivered' = IF Registered(Origin(h).src)
                    THEN [delivered EXCEPT ![<<Origin(h).src, 0>>] = Append(@, NewPeer(h))]
                    ELSE delivered
    /\ ret' = Result("dc_open", h, 0, <<NewPeer(h)>>)
    /\ UNCHANGED <<wire, polled, issued, allocLog, closed, nmsg, nsent>>
    /\ UNCHANGED <<snakeVars, gameVars>>

\* payloads the remote end of h can make the transport deliver: well-formed
\* envelopes (the remote numbers the messages of a stream in sending order) and
\* values that are no envelope
Payloads(h) == {[js |-> "object", stream_id |-> s, msg |-> Len(delivered[<<h, s>>]) + 1] : s \in Streams}
               \cup {[js |-> "garbage"]}

\* DataConnection "data"
DcDataClosure(h, data) ==
    /\ Registered(h) /\ IsSome(Info(h)._dc_data_closure)
    /\ net[h].dc = "open"
    /\ data.js = "object" => nmsg < MaxMsgs
    /\ nmsg' = IF data.js = "object" THEN nmsg + 1 ELSE nmsg
    /\ imp' = data_closure_body(imp, Unwrap(Info(h)._dc_data_closure).dc_handle, data)
    /\ delivered' = IF data.js = "object"
                    THEN [delivered EXCEPT ![<<h, data.stream_id>>] =
                              Append(@, Data(NetData(data.stream_id, data.msg)))]
                    ELSE delivered
    /\ ret' = IF data.js = "object"
              THEN Result("data", h, data.stream_id, <<Data(NetData(data.stream_id, data.msg))>>)
              ELSE Result("bad_data", h, 0, <<>>)
    /\ UNCHANGED <<net, wire, polled, issued, allocLog, closed, nsent>>
    /\ UNCHANGED <<snakeVars, gameVars>>

\* DataConnection "close": the remote end or the transport closed the connection
DcCloseClosure(h) ==
    /\ Registered(h) /\ IsSome(Info(h)._dc_close_closure)
    /\ net[h].dc \in {"connecting", "open"}
    /\ imp' = close_closure_body(imp, Unwrap(Info(h)._dc_close_closure).dc_handle)
    /\ net' = [net EXCEPT ![h].dc = "closed"]
    /\ ret' = Result("dc_close", h, 0, <<>>)
    /\ UNCHANGED <<wire, delivered, polled, issued, allocLog, closed, nmsg, nsent>>
    /\ UNCHANGED <<snakeVars, gameVars>>

\* DataConnection "error"
DcErrorClosure(h) ==
    /\ Registered(h) /\ IsSome(Info(h)._dc_error_closure)
    /\ net[h].dc \in {"connecting", "open"}
    /\ imp' = error_closure_body(imp, Unwrap(Info(h)._dc_error_closure).dc_handle)
    /\ ret' = Result("dc_error", h, 0, <<>>)
    /\ UNCHANGED <<net, wire, delivered, polled, issued, allocLog, closed, nmsg, nsent>>
    /\ UNCHANGED <<snakeVars, gameVars>>

\* Peer "error" (error_closure of connect and of listen): log only
PeerErrorClosure(h) ==
    /\ Registered(h) /\ IsSome(Info(h)._peer_error_closure)
    /\ net[h].peer \in {"new", "open"}
    /\ ret' = Result("peer_error", h, 0, <<>>)
    /\ UNCHANGED <<imp, net, wire, delivered, polled, issued, allocLog, closed, nmsg, nsent>>
    /\ UNCHANGED <<snakeVars, gameVars>>

\* every operation and callback of the registry
Next ==
    \/ Listen
    \/ Connect
    \/ \E h \in HandleVals : Close(h)
    \/ \E h \in HandleVals, s \in Streams, m \in Msgs : Send(h, s, m)
    \/ \E h \in HandleVals : NewStreamId(h)
    \/ \E h \in HandleVals, s \in Streams : GetHandleEvents(h, s)
    \/ \E h \in H : ConnectOpenClosure(h)
    \/ \E h \in H : ListenOpenClosure(h)
    \/ \E h \in H : ConnectionClosure(h)
    \/ \E h \in H : DcOpenClosure(h)
    \/ \E h \in H : \E data \in Payloads(h) : DcDataClosure(h, data)
    \/ \E h \in H : DcCloseClosure(h)
    \/ \E h \in H : DcErrorClosure(h)
    \/ \E h \in H : PeerErrorClosure(h)

Spec == Init /\ [][Next]_vars

\* The registry's life cycle and event queues: every operation and callback
\* except send and new_stream_id, which read and write no queue.
NextQueue ==
    \/ Listen
    \/ Connect
    \/ \E h \in HandleVals : Close(h)
    \/ \E h \in HandleVals, s \in Streams : GetHandleEvents(h, s)
    \/ \E h \in H : ConnectOpenClosure(h)
    \/ \E h \in H : ListenOpenClosure(h)
    \/ \E h \in H : ConnectionClosure(h)
    \/ \E h \in H : DcOpenClosure(h)
    \/ \E h \in H : \E data \in Payloads(h) : DcDataClosure(h, data)
    \/ \E h \in H : DcCloseClosure(h)
    \/ \E h \in H : DcErrorClosure(h)
    \/ \E h \in H : PeerErrorClosure(h)

SpecQueue == Init /\ [][NextQueue]_vars

\* Stream id allocation: the operations that create and remove handles, and
\* new_stream_id.
NextIds ==
    \/ Listen
    \/ Connect
    \/ \E h \in HandleVals : Close(h)
    \/ \E h \in HandleVals : NewStreamId(h)
    \/ \E h \in H : ListenOpenClosure(h)
    \/ \E h \in H : ConnectionClosure(h)

SpecIds == Init /\ [][NextIds]_vars

\* The caller's operations, with the callbacks that bind connections and
\* announce peers but without inbound data.
NextCalls ==
    \/ Listen
    \/ Connect
    \/ \E h \in HandleVals : Close(h)
    \/ \E h \in HandleVals, s \in Streams, m \in Msgs :
          /\ IsSome(send(imp, h, s, m).dc) => nsent < MaxCallSends
          /\ Send(h, s, m)
    \/ \E h \in HandleVals : NewStreamId(h)
    \/ \E h \in HandleVals, s \in Streams : GetHandleEvents(h, s)
    \/ \E h \in H : ConnectOpenClosure(h)
    \/ \E h \in H : ListenOpenClosure(h)
    \/ \E h \in H : ConnectionClosure(h)
    \/ \E h \in H : DcOpenClosure(h)

SpecCalls == Init /\ [][NextCalls]_vars

\* Sending: the operations and callbacks that create, bind and remove
\* connections, and send.
NextSend ==
    \/ Listen
    \/ Connect
    \/ \E h \in HandleVals : Close(h)
    \/ \E h \in HandleVals, s \in Streams, m \in Msgs : Send(h, s, m)
    \/ \E h \in H : ConnectOpenClosure(h)
    \/ \E h \in H : ListenOpenClosure(h)
    \/ \E h \in H : ConnectionClosure(h)
    \/ \E h \in H : DcOpenClosure(h)

SpecSend == Init /\ [][NextSend]_vars


(* ------------------------------ snake frames --------------------------- *)
\* the remote role of the mirror snake
MirrorRole == Unwrap(msnake.remote_imp)
\* an envelope on the snake's stream, with the trail of its sender when it was sent
Envelope(sent, trail) ==
    [upd |-> Data(NetData(sent.stream_id, sent.msg)), of |-> trail]
Envelopes(sent, trail) == [k \in 1..Len(sent) |-> Envelope(sent[k], trail)]
Upds(chan, k) == [j \in 1..k |-> chan[j].upd]

\* the messages of sent that went to (peer, stream_id), in order
SentTo(sent, peer, stream_id) ==
    SelectSeq(sent, LAMBDA m : m.peer = peer /\ m.stream_id = stream_id)
\* the FullUpdateReq among the polled updates
ReqsIn(upds) ==
    SelectSeq(read_snake_msgs(upds), LAMBDA m : m.type = "FullUpdateReq")

\* The history of incremental updates after a think at game time t: peer role j
\* sent one when it handed more messages to its stream than the snapshots it
\* owed for the requests it polled.
SentAtAfter(sentAt, peers, sent, peer_upds, t) ==
    [j \in 1..Len(peers) |->
        IF Len(SentTo(sent, peers[j].peer, peers[j].stream_id)) > Len(ReqsIn(peer_upds[j]))
        THEN t ELSE sentAt[j]]

\* one frame of the owning process (GameState::think -> Snake::think): k envelopes
\* have arrived since the last frame; the mouse, the frame time dt and the
\* Interpolable's result are the frame's inputs
OwnerFrame(is_down, mouse_pos, cur, dt, k) ==
    /\ now + dt <= MaxNow
    /\ cur \in OnWay(osnake.data.snake_points[Len(osnake.data.snake_points)],
                     OwnTarget(osnake.data, is_down, mouse_pos))
    /\ LET r == Snake_think(osnake, <<>>, <<Upds(m2o, k)>>,
                            [is_down |-> is_down, mouse_pos |-> mouse_pos,
                             cur |-> cur, now |-> now + dt])
       IN /\ Len(r.snake.data.snake_points) <= MaxTrail
          /\ Len(o2m) + Len(r.sent) <= MaxChan
          /\ osnake' = r.snake
          /\ o2m' = o2m \o Envelopes(r.sent, r.snake.data.snake_points)
          /\ osentAt' = SentAtAfter(osentAt, osnake.peers, r.sent, <<Upds(m2o, k)>>, now + dt)
    /\ m2o' = SubSeq(m2o, k + 1, Len(m2o))
    /\ now' = now + dt
    /\ UNCHANGED <<msnake, mnow, relayed, msentAt>>
    /\ UNCHANGED <<regVars, gameVars>>

\* one frame of the mirroring process, dt after its last one: k envelopes have
\* arrived since. What the snake sends on its remote role's stream goes back to
\* the owner, what its peer roles send goes to the clients behind them (they
\* send nothing back here).
MirrorFrame(k, dt) ==
    /\ mnow + dt <= MaxHostNow
    /\ LET none == [j \in 1..Len(msnake.peers) |-> <<>>]
           r == Snake_think(msnake, Upds(o2m, k), none,
                            [is_down |-> FALSE, mouse_pos |-> Pos(0, 0),
                             cur |-> Pos(0, 0), now |-> mnow + dt])
           back == SentTo(r.sent, MirrorRole.peer, MirrorRole.stream_id)
       IN /\ Len(m2o) + Len(back) <= MaxChan
          /\ msnake' = r.snake
          /\ m2o' = m2o \o Envelopes(back, r.snake.data.snake_points)
          /\ relayed' = SelectSeq(r.sent, LAMBDA m : ~(m.peer = MirrorRole.peer
                                                       /\ m.stream_id = MirrorRole.stream_id))
          /\ msentAt' = SentAtAfter(msentAt, msnake.peers, r.sent, none, mnow + dt)
    /\ o2m' = SubSeq(o2m, k + 1, Len(o2m))
    /\ mnow' = mnow + dt
    /\ UNCHANGED <<osnake, now, osentAt>>
    /\ UNCHANGED <<regVars, gameVars>>

\* frame times: a frame shorter than the throttle and one longer
FrameTimes == {1, 3}

\* A snake and its mirror: the frames of the two processes. The mirror has no
\* peer role, so the game time of its process is left at 0.
NextSnake ==
    \/ \E is_down \in BOOLEAN, mouse_pos \in Pts, cur \in Pts, dt \in FrameTimes :
          \E k \in 0..Len(m2o) :
              OwnerFrame(is_down, mouse_pos, cur, dt, k) /\ UNCHANGED lastFrame
    \/ \E k \in 0..Len(o2m) : MirrorFrame(k, 0) /\ UNCHANGED lastFrame

SpecSnake == Init /\ [][NextSnake]_vars

\* The listen loop of GameState::think on the mirroring process (a host) for a
\* client that joins later: the mirror snake gets a peer role for the new
\* client, on the stream new_stream_id issued on that client's connection.
NewClient ==
    /\ Len(msnake.peers) < MaxLateClients
    /\ msnake' = add_peer(msnake, LateHandle(Len(msnake.peers) + 1), RelayStream)
    /\ msentAt' = Append(msentAt, -1)
    /\ UNCHANGED <<osnake, o2m, m2o, now, osentAt, mnow, relayed, lastFrame>>
    /\ UNCHANGED <<regVars, gameVars>>

\* A snake, its mirror on the host and the clients that joined the host later:
\* the owner's frames, the host's frames and the late clients' arrival.
NextRelay ==
    \/ \E is_down \in BOOLEAN, mouse_pos \in Pts, cur \in Pts, dt \in FrameTimes :
          \E k \in 0..Len(m2o) :
              /\ now + dt <= MaxRelayNow
              /\ OwnerFrame(is_down, mouse_pos, cur, dt, k)
              /\ UNCHANGED lastFrame
    \/ \E k \in 0..Len(o2m), dt \in FrameTimes : MirrorFrame(k, dt) /\ UNCHANGED lastFrame
    \/ NewClient

SpecRelay == Init /\ [][NextRelay]_vars

(* ------------------------------ the game ------------------------------- *)
\* the envelopes of out that were handed to data connection dc, in order
Encs(out, dc) ==
    LET sel == SelectSeq(out, LAMBDA o : o.dc = dc)
    IN [k \in 1..Len(sel) |-> sel[k].encoded]

\* the links after process p handed the envelopes of out to its data connections
Transmit(p, g, out) ==
    IF p = Host
    THEN [c \in Clients |->
            IF links[c].host_dc # invalid
            THEN [links[c] EXCEPT !.to_client = @ \o Encs(out, links[c].host_dc)]
            ELSE links[c]]
    ELSE [links EXCEPT ![p].to_host = @ \o Encs(out, g.connect_handle)]

\* the result st of a call into the GameState of process p takes effect
Apply(p, st) ==
    /\ games' = [games EXCEPT ![p] = st.g]
    /\ links' = Transmit(p, st.g, st.out)
    /\ panicked' = [panicked EXCEPT ![p] = st.panic]

\* client c has started to join and the host has not yet read its introduction
Joining(c) ==
    /\ links[c].stage # "idle"
    /\ panicked[c] = NoPanic
    /\ ~ /\ links[c].host_open /\ links[c].client_open
         /\ links[c].to_host = <<>> /\ links[c].to_client = <<>>
         /\ Queued(games[c].network, games[c].connect_handle, 0) = <<>>
         /\ Queued(games[Host].network, games[Host].listen_handle, 0) = <<>>
         /\ \/ Queued(games[Host].network, links[c].host_dc, 0) = <<>>
            \/ games[Host].client_handle # links[c].host_dc

\* the page calls be_host (once)
BeHost ==
    /\ panicked[Host] = NoPanic
    /\ games[Host].listen_handle = invalid
    /\ Apply(Host, be_host(games[Host]))
    /\ lpeer' = "new"
    /\ UNCHANGED <<regVars, snakeVars>>

\* Peer "open" of the host's listening peer (log only)
HostPeerOpen ==
    /\ panicked[Host] = NoPanic
    /\ lpeer = "new"
    /\ lpeer' = "open"
    /\ UNCHANGED <<games, links, panicked>>
    /\ UNCHANGED <<regVars, snakeVars>>

\* the page of client c calls be_client (once); clients start in the order of
\* their numbers
BeClient(c) ==
    /\ panicked[c] = NoPanic
    /\ links[c].stage = "idle"
    /\ c > 1 => links[c - 1].stage # "idle"
    /\ Cardinality({d \in Clients : Joining(d)}) < MaxJoining
    /\ LET st == be_client(games[c]) IN
          /\ games' = [games EXCEPT ![c] = st.g]
          /\ links' = [links EXCEPT ![c].stage = "connecting"]
    /\ UNCHANGED <<lpeer, panicked>>
    /\ UNCHANGED <<regVars, snakeVars>>

\* Peer "open" of client c's peer: connect's open_closure dials the host
ClientPeerOpen(c) ==
    /\ panicked[c] = NoPanic
    /\ links[c].stage = "connecting"
    /\ games' = [games EXCEPT ![c].network =
                    connect_open_closure_body(@, games[c].connect_handle)]
    /\ links' = [links EXCEPT ![c].stage = "dialed"]
    /\ UNCHANGED <<lpeer, panicked>>
    /\ UNCHANGED <<regVars, snakeVars>>

\* Peer "connection" on the host's listening peer, for the connection of client c
HostConnection(c) ==
    /\ panicked[Host] = NoPanic
    /\ lpeer = "open"
    /\ links[c].stage = "dialed"
    /\ LET r == connection_closure_body(games[Host].network, games[Host].listen_handle) IN
          /\ games' = [games EXCEPT ![Host].network = r.imp]
          /\ links' = [links EXCEPT ![c].stage = "accepted", ![c].host_dc = r.ret]
    /\ UNCHANGED <<lpeer, panicked>>
    /\ UNCHANGED <<regVars, snakeVars>>

\* DataConnection "open" on the host's side of client c's connection
HostDcOpen(c) ==
    /\ panicked[Host] = NoPanic
    /\ links[c].stage = "accepted" /\ ~links[c].host_open
    /\ LET cl == Unwrap(games[Host].network.handle_map[links[c].host_dc]._dc_open_closure) IN
          games' = [games EXCEPT ![Host].network =
                       open_closure_body(@, cl.src_handle, cl.dc_handle)]
    /\ links' = [links EXCEPT ![c].host_open = TRUE]
    /\ UNCHANGED <<lpeer, panicked>>
    /\ UNCHANGED <<regVars, snakeVars>>

\* DataConnection "open" on client c's side
ClientDcOpen(c) ==
    /\ panicked[c] = NoPanic
    /\ links[c].stage = "accepted" /\ ~links[c].client_open
    /\ LET cl == Unwrap(games[c].network.handle_map[games[c].connect_handle]._dc_open_closure) IN
          games' = [games EXCEPT ![c].network =
                       open_closure_body(@, cl.src_handle, cl.dc_handle)]
    /\ links' = [links EXCEPT ![c].client_open = TRUE]
    /\ UNCHANGED <<lpeer, panicked>>
    /\ UNCHANGED <<regVars, snakeVars>>

\* DataConnection "data" on client c's side: the oldest envelope in flight
DeliverToClient(c) ==
    /\ panicked[c] = NoPanic
    /\ links[c].client_open /\ links[c].to_client # <<>>
    /\ games' = [games EXCEPT ![c].network =
                    data_closure_body(@, games[c].connect_handle, Head(links[c].to_client))]
    /\ links' = [links EXCEPT ![c].to_client = Tail(@)]
    /\ UNCHANGED <<lpeer, panicked>>
    /\ UNCHANGED <<regVars, snakeVars>>

\* DataConnection "data" on the host's side of client c's connection
DeliverToHost(c) ==
    /\ panicked[Host] = NoPanic
    /\ links[c].host_open /\ links[c].to_host # <<>>
    /\ games' = [games EXCEPT ![Host].network =
                    data_closure_body(@, links[c].host_dc, Head(links[c].to_host))]
    /\ links' = [links EXCEPT ![c].to_host = Tail(@)]
    /\ UNCHANGED <<lpeer, panicked>>
    /\ UNCHANGED <<regVars, snakeVars>>

\* run_frame of process p: GameState::think
Frame(p) ==
    /\ panicked[p] = NoPanic
    /\ Apply(p, GameState_think(games[p]))
    /\ UNCHANGED lpeer
    /\ UNCHANGED <<regVars, snakeVars>>

\* One host and the clients that connect to it.
NextGame ==
    \/ BeHost
    \/ HostPeerOpen
    \/ \E c \in Clients : BeClient(c)
    \/ \E c \in Clients : ClientPeerOpen(c)
    \/ \E c \in Clients : HostConnection(c)
    \/ \E c \in Clients : HostDcOpen(c)
    \/ \E c \in Clients : ClientDcOpen(c)
    \/ \E c \in Clients : DeliverToClient(c)
    \/ \E c \in Clients : DeliverToHost(c)
    \/ \E p \in Procs : Frame(p)

SpecGame == Init /\ [][NextGame]_vars

(* ------------------------- a host, clients and pings --------------------- *)
MaxPingClients == 2
MaxPings == 1
\* GameImp.now when the page calls ping_connections: 0 before the first frame
PingTimes == {0, 1}
PingClients == 1..MaxPingClients

IsPing(u) == u.type = "Data" /\ u.data.msg.type = "Ping"
\* the Ping messages on their way: in flight on a link or queued in a registry
PingsOnTheWay ==
    LET inflight(q) == Len(SelectSeq(q, LAMBDA d : from_value(d).val.msg.type = "Ping"))
        queued(p, h) == Len(SelectSeq(Queued(games[p].network, h, 0), IsPing))
        RECURSIVE sumq(_, _)
        sumq(p, h) == IF h = 0 THEN 0 ELSE queued(p, h) + sumq(p, h - 1)
        RECURSIVE sump(_)
        sump(p) == (IF p = Host THEN 0
                    ELSE inflight(links[p].to_host) + inflight(links[p].to_client)
                         + sump(p - 1))
                   + sumq(p, Len(games[p].network.handle_map))
    IN sump(MaxPingClients)

\* the data connections process p would ping have reported open on p's side
\* (what DataConnection.send does before "open" is the transport's business)
PingableOpen(p) ==
    IF p = Host
    THEN \A c \in Clients :
            (links[c].host_dc # invalid /\ links[c].host_dc = games[Host].client_handle)
               => links[c].host_open
    ELSE links[p].stage # "idle" => links[p].client_open

\* the page of process p calls ping_connections
PingConnections(p) ==
    /\ panicked[p] = NoPanic
    /\ PingsOnTheWay < MaxPings
    /\ PingableOpen(p)
    /\ \E t \in PingTimes : Apply(p, ping_connections(games[p], t))
    /\ UNCHANGED lpeer
    /\ UNCHANGED <<regVars, snakeVars>>

NextPing ==
    \/ BeHost
    \/ HostPeerOpen
    \/ \E c \in PingClients : BeClient(c)
    \/ \E c \in PingClients : ClientPeerOpen(c)
    \/ \E c \in PingClients : HostConnection(c)
    \/ \E c \in PingClients : HostDcOpen(c)
    \/ \E c \in PingClients : ClientDcOpen(c)
    \/ \E c \in PingClients : DeliverToClient(c)
    \/ \E c \in PingClients : DeliverToHost(c)
    \/ \E p \in {Host} \cup PingClients : Frame(p)
    \/ \E p \in {Host} \cup PingClients : PingConnections(p)

SpecPing == Init /\ [][NextPing]_vars

(* ---------------- a snake and its mirror, with stray events -------------- *)
\* Events a role does not expect on the snake's stream. The peer can put any
\* NetData on the data channel, and the registry queues it under its stream id.
NonSnake ==
    {NewPeer(PeerHandle),
     Data(NetData(SnakeStream, Ping(1))),
     Data(NetData(SnakeStream, SnakeIntro("IamHost", RelayStream, StartPoints))),
     Data(NetData(SnakeStream, StartPointsUpdate(<<StartPoints>>)))}
StrayToMirror == NonSnake \cup {Data(NetData(SnakeStream, NetMsg_Snake(FullUpdateReq)))}
StrayToPeer ==
    NonSnake \cup {Data(NetData(SnakeStream,
                                NetMsg_Snake(EndUpdate(0, 0, <<Pos(0, 0), Pos(10, 0)>>))))}
\* a stray event in flight carries no trail of a sender
StrayEnvelope(e) == [upd |-> e, of |-> <<>>]
Strays(chan) == Len(SelectSeq(chan, LAMBDA e : e.of = <<>>))

\* a stray event arrives on the stream of the mirror's remote role
StrayForMirror(e) ==
    /\ Len(o2m) < MaxChan
    /\ Strays(o2m) + Strays(m2o) < MaxStrays
    /\ o2m' = Append(o2m, StrayEnvelope(e))
    /\ UNCHANGED <<osnake, msnake, m2o, now, osentAt, mnow, relayed, msentAt, lastFrame>>
    /\ UNCHANGED <<regVars, gameVars>>

\* a stray event arrives on the stream of the owner's peer role
StrayForPeer(e) ==
    /\ Len(m2o) < MaxChan
    /\ Strays(o2m) + Strays(m2o) < MaxStrays
    /\ m2o' = Append(m2o, StrayEnvelope(e))
    /\ UNCHANGED <<osnake, msnake, o2m, now, osentAt, mnow, relayed, msentAt, lastFrame>>
    /\ UNCHANGED <<regVars, gameVars>>

\* trails a snapshot can carry: one that shares no point with the start points,
\* and one shorter than any trail of the mirror
SnapTrails == {<<Pos(0, 30), Pos(10, 0), Pos(30, 0)>>, <<Pos(10, 0)>>}

\* a snapshot of trail L arrives on the stream of the mirror's remote role (while
\* nothing else is in flight, for a mirror that holds no such trail yet)
SnapshotForMirror(L) ==
    /\ o2m = <<>> /\ m2o = <<>>
    /\ msnake.data.snake_points \notin SnapTrails
    /\ o2m' = Append(o2m, [upd |-> Data(NetData(SnakeStream, NetMsg_Snake(EndUpdate(0, 0, L)))),
                           of |-> L])
    /\ UNCHANGED <<osnake, msnake, m2o, now, osentAt, mnow, relayed, msentAt, lastFrame>>
    /\ UNCHANGED <<regVars, gameVars>>

\* the frames of the two processes, each leaving a record of itself
NextStray ==
    \/ \E is_down \in BOOLEAN, mouse_pos \in Pts, cur \in Pts, dt \in FrameTimes :
          \E k \in 0..Len(m2o) :
              /\ now + dt <= MaxStrayNow
              /\ OwnerFrame(is_down, mouse_pos, cur, dt, k)
              /\ Len(osnake'.data.snake_points) <= MaxStrayTrail
              /\ lastFrame' = [by |-> "owner", before |-> osnake, upds |-> Upds(m2o, k),
                               sent |-> [j \in 1..(Len(o2m') - Len(o2m)) |->
                                            o2m'[Len(o2m) + j].upd]]
    \/ \E k \in 0..Len(o2m) :
          /\ MirrorFrame(k, 0)
          /\ lastFrame' = [by |-> "mirror", before |-> msnake, upds |-> Upds(o2m, k),
                           sent |-> [j \in 1..(Len(m2o') - Len(m2o)) |->
                                        m2o'[Len(m2o) + j].upd]]
    \/ \E e \in StrayToMirror : StrayForMirror(e)
    \/ \E e \in StrayToPeer : StrayForPeer(e)
    \/ \E L \in SnapTrails : SnapshotForMirror(L)

SpecStray == Init /\ [][NextStray]_vars


(* ======================= properties of the registry ===================== *)
IsPrefix(a, b) == Len(a) <= Len(b) /\ \A k \in 1..Len(a) : a[k] = b[k]
Range(q) == {q[k] : k \in DOMAIN q}
CallOps == {"send", "close", "new_stream_id", "poll"}

\* C1: get_handle_events drains. A poll of a registered pair (h, s) returns every
\* event queued for (h, s) and leaves that queue empty; a poll that immediately
\* follows a poll of the same pair returns the empty sequence.
C1_PollDrains ==
    [][\A h \in H, s \in Streams :
        (ret'.op = "poll" /\ ret'.h = h /\ ret'.s = s /\ Registered(h)) =>
            /\ ret'.val = Queued(imp, h, s)
            /\ Queued(imp', h, s) = <<>>
            /\ (ret.op = "poll" /\ ret.h = h /\ ret.s = s) => ret'.val = <<>>]_vars

\* two polls of one pair in a row: the first returned events, the second nothing
C1_Witness ==
    /\ ret.op = "poll" /\ ret.again /\ ret.first >= 1 /\ ret.val = <<>>
    /\ Registered(ret.h)

\* C2: FIFO per (handle, stream). The concatenation of the results of all polls
\* of a pair is a prefix of the events delivered for that pair, in delivery order.
C2_Fifo ==
    \A h \in H, s \in Streams :
        Registered(h) => IsPrefix(polled[<<h, s>>], delivered[<<h, s>>])

\* two events of one pair were polled while another pair received events too
C2_Witness ==
    \E h \in H, s \in Streams :
        /\ Registered(h) /\ Len(polled[<<h, s>>]) >= 2
        /\ \E p \in H \X Streams : p # <<h, s>> /\ delivered[p] # <<>>

\* C3: no loss and no duplication while registered. For a registered handle the
\* events delivered for (h, s) are exactly the events already returned by polls
\* followed by the events still queued, each once.
C3_NoLossNoDup ==
    \A h \in H, s \in Streams :
        Registered(h) =>
            /\ delivered[<<h, s>>] = polled[<<h, s>>] \o Queued(imp, h, s)
            /\ \A j, k \in DOMAIN delivered[<<h, s>>] :
                  j # k => delivered[<<h, s>>][j] # delivered[<<h, s>>][k]

\* events accumulate unread behind events that were polled before
C3_Witness ==
    \E h \in H, s \in Streams :
        /\ Registered(h)
        /\ Len(polled[<<h, s>>]) >= 1
        /\ Len(Queued(imp, h, s)) >= 2

\* C4: demultiplexing. An inbound envelope with stream id s on the connection of
\* h is appended to the queue of (h, s); that arrival, and a poll of (h, s),
\* leave every other queue (other streams of h, other handles) as it was.
C4_Demux ==
    [][\A h \in H, s \in Streams :
        (ret'.op \in {"data", "poll"} /\ ret'.h = h /\ ret'.s = s) =>
            /\ ret'.op = "data" =>
                  /\ ret'.val[1].data.stream_id = s
                  /\ QueueOf(imp', h, s) = Some(Append(Queued(imp, h, s), ret'.val[1]))
            /\ \A p \in H \X Streams :
                  p # <<h, s>> => QueueOf(imp', p[1], p[2]) = QueueOf(imp, p[1], p[2])]_vars

\* an envelope arrives while another stream of the handle and another handle
\* hold events
C4_Witness ==
    /\ ret.op = "data"
    /\ \E s \in Streams : s # ret.s /\ Queued(imp, ret.h, s) # <<>>
    /\ \E h \in H, s \in Streams : h # ret.h /\ Queued(imp, h, s) # <<>>


KindOf(h) == Origin(h).kind
SrcOf(h) == Origin(h).src
Count(e, q) == Cardinality({k \in DOMAIN q : q[k] = e})

\* C5: stream id parity. The ids issued on the accepting side of a connection
\* are 1, 3, 5, ... in that order, the ids issued on the initiating side are
\* 2, 4, 6, ..., so the ids of an accepting end and of an initiating end are
\* disjoint and none is the control stream 0.
C5_StreamIdParity ==
    /\ \A h \in H : Registered(h) =>
          \A k \in DOMAIN issued[h] :
              issued[h][k] = IF KindOf(h) = "connect" THEN 2 * k ELSE 2 * k - 1
    /\ \A a, c \in H :
          (Registered(a) /\ Registered(c) /\ KindOf(a) = "accept" /\ KindOf(c) = "connect") =>
              /\ Range(issued[a]) \cap Range(issued[c]) = {}
              /\ 0 \notin Range(issued[a]) \cup Range(issued[c])

\* both ends have issued two ids each
C5_Witness ==
    \E a, c \in H :
        /\ Registered(a) /\ Registered(c)
        /\ KindOf(a) = "accept" /\ KindOf(c) = "connect"
        /\ Len(issued[a]) = 2 /\ Len(issued[c]) = 2

\* C6: the operations are total on unknown targets. send, close, new_stream_id and
\* get_handle_events on a handle that is not registered (0, never allocated,
\* closed) return nothing and change neither the registry nor the transport; a
\* poll of a registered handle on a stream without a queue returns the empty
\* sequence and creates no queue.
C6_TotalOnUnknown ==
    [][/\ (ret'.op \in CallOps /\ ret'.h \notin DOMAIN imp.handle_map) =>
            (ret'.val = <<>> /\ imp' = imp /\ wire' = wire /\ net' = net)
       /\ (/\ ret'.op = "poll"
           /\ ret'.h \in DOMAIN imp.handle_map
           /\ ret'.s \notin DOMAIN imp.handle_map[ret'.h].received_msgs) =>
            (ret'.val = <<>> /\ imp' = imp)]_vars

\* a poll of a closed handle, while another handle is registered and holds events
C6_Witness ==
    /\ ret.op = "poll" /\ ret.h \in closed
    /\ \E h \in H : Registered(h) /\ Queued(imp, h, 0) # <<>>

\* C7: close is idempotent. close of a registered handle removes the entry of
\* that handle, closes its transport objects and changes nothing else; close of
\* a handle that is not registered changes nothing.
C7_CloseIdempotent ==
    [][ret'.op = "close" =>
        IF ret'.h \in DOMAIN imp.handle_map
        THEN /\ DOMAIN imp'.handle_map = DOMAIN imp.handle_map \ {ret'.h}
             /\ \A x \in DOMAIN imp'.handle_map : imp'.handle_map[x] = imp.handle_map[x]
             /\ imp'.next_handle = imp.next_handle
             /\ \A x \in H \ {ret'.h} : net'[x] = net[x]
             /\ IsSome(imp.handle_map[ret'.h]._dc) => net'[ret'.h].dc = "closed"
             /\ IsSome(imp.handle_map[ret'.h]._peer) => net'[ret'.h].peer = "destroyed"
             /\ wire' = wire
        ELSE imp' = imp /\ net' = net /\ wire' = wire]_vars

\* close(h); close(h) while other handles are registered
C7_Witness ==
    /\ ret.op = "close" /\ ret.again /\ ret.h \in closed
    /\ Cardinality(DOMAIN imp.handle_map) >= 2

\* C8: handle life cycle. Every allocated handle is either registered or was
\* closed by close, never both and never neither; a handle leaves the registry
\* only in a close of that handle, and a closed handle is never registered again.
C8_HandleLifecycle ==
    [][/\ DOMAIN imp'.handle_map \subseteq Allocated'
       /\ \A h \in Allocated' : (h \in DOMAIN imp'.handle_map) # (h \in closed')
       /\ \A h \in DOMAIN imp.handle_map :
             h \notin DOMAIN imp'.handle_map => (ret'.op = "close" /\ ret'.h = h)
       /\ \A h \in closed : h \notin DOMAIN imp'.handle_map]_vars

\* one handle was closed by the caller, another one is still registered after the
\* remote end closed its connection
C8_Witness ==
    /\ closed # {}
    /\ \E h \in H : Registered(h) /\ KindOf(h) = "accept" /\ net[h].dc = "closed"

\* C9: handle 0 is never allocated and handles are never reused. The handles
\* allocated by listen, connect and inbound connections are positive and
\* pairwise different, closed ones included.
C9_HandlesFresh ==
    \A j, k \in DOMAIN allocLog :
        /\ allocLog[j].handle > invalid
        /\ j # k => allocLog[j].handle # allocLog[k].handle

\* a handle is allocated after another one was closed
C9_Witness ==
    /\ ret.op \in {"listen", "connect", "connection"}
    /\ closed # {}
    /\ Len(allocLog) = MaxHandles

\* C10: inbound connections. An inbound connection accepted by listener L gets a
\* new registered handle h # L; when its data channel opens while L is
\* registered, NewPeer(h) is appended to the stream-0 queue of L and to no queue
\* of h; L sees NewPeer(h) at most once; data received on the connection is
\* queued under h.
C10_InboundConnection ==
    [][/\ ret'.op = "connection" =>
            LET h == ret'.val[1] IN
            /\ h # ret'.h
            /\ h \notin Allocated
            /\ h \in DOMAIN imp'.handle_map
       /\ (ret'.op = "dc_open" /\ KindOf(ret'.h) = "accept") =>
            LET h == ret'.h
                L == SrcOf(h)
            IN /\ L # h
               /\ Registered(L) =>
                     QueueOf(imp', L, 0) = Some(Append(Queued(imp, L, 0), NewPeer(h)))
               /\ \A s \in Streams : QueueOf(imp', h, s) = QueueOf(imp, h, s)
       /\ \A h \in DOMAIN imp'.handle_map : KindOf(h)' = "accept" =>
            /\ \A s \in Streams : NewPeer(h) \notin Range(Queued(imp', h, s))
            /\ Registered(SrcOf(h))' =>
                  Count(NewPeer(h), polled'[<<SrcOf(h)', 0>>] \o Queued(imp', SrcOf(h)', 0)) <= 1
       /\ (ret'.op = "data" /\ KindOf(ret'.h) = "accept") =>
            /\ Queued(imp', ret'.h, ret'.s) = Append(Queued(imp, ret'.h, ret'.s), ret'.val[1])
            /\ \A s \in Streams : Queued(imp', SrcOf(ret'.h), s) = Queued(imp, SrcOf(ret'.h), s)]_vars

\* the listener has polled NewPeer(h) and data is queued under h
C10_Witness ==
    \E h \in H :
        /\ Registered(h) /\ KindOf(h) = "accept" /\ Registered(SrcOf(h))
        /\ NewPeer(h) \in Range(polled[<<SrcOf(h), 0>>])
        /\ \E s \in Streams : Queued(imp, h, s) # <<>>

\* the outbound connection of h waits for its handshake: connect returned h, the
\* peer has not reported "open" and the caller has not closed h
HandshakeInFlight(h) ==
    h \in Allocated /\ KindOf(h) = "connect" /\ h \notin closed /\ net[h].peer = "new"

\* C11: connect registers its handle at once, and the handle is inert until the
\* handshake completes. The handle connect returned is registered when connect
\* returns; while the handshake of h is in flight h stays registered, has no data
\* connection bound, no event was ever queued for it, and a poll of it returns
\* the empty sequence.
C11_ConnectInert ==
    /\ ret.op = "connect" => Registered(ret.val[1])
    /\ \A h \in H : HandshakeInFlight(h) =>
          /\ Registered(h)
          /\ Info(h)._dc = None
          /\ Info(h).received_msgs = EmptyMap
          /\ \A s \in Streams : delivered[<<h, s>>] = <<>>
          /\ (ret.op = "poll" /\ ret.h = h) => ret.val = <<>>

\* a poll of a handle whose handshake is in flight, after the peer reported an
\* error or while the listener holds events
C11_Witness ==
    /\ ret.op = "poll" /\ HandshakeInFlight(ret.h)
    /\ \E h \in H : h # ret.h /\ Registered(h) /\ Queued(imp, h, 0) # <<>>

\* the data connection bound to handle h in registry i, None when h is not
\* registered or has no connection bound
BoundDc(i, h) == IF h \in DOMAIN i.handle_map THEN i.handle_map[h]._dc ELSE None

\* C12: send without a bound connection is dropped. A send on a handle that has
\* no data connection bound (handshake in flight, listener, closed or unknown
\* handle) hands nothing to any connection and leaves the registry unchanged;
\* nothing is buffered: envelopes reach a connection only in a send on a handle
\* bound to it, so the step that binds a connection transmits nothing.
C12_UnboundSendDropped ==
    [][/\ (ret'.op = "send" /\ BoundDc(imp, ret'.h) = None) =>
            (ret'.val = <<>> /\ wire' = wire /\ imp' = imp /\ net' = net)
       /\ \A d \in H : wire'[d] # wire[d] =>
            (ret'.op = "send" /\ BoundDc(imp, ret'.h) = Some(d))
       /\ ret'.op = "peer_open" => wire' = wire]_vars

\* a send on a handle whose handshake is in flight has just been dropped, while
\* another connection is bound and has carried an envelope
C12_Witness ==
    /\ ret.op = "send" /\ ret.val = <<>>
    /\ HandshakeInFlight(ret.h)
    /\ wire[ret.h] = <<>>
    /\ \E d \in H : d # ret.h /\ BoundDc(imp, d) = Some(d) /\ wire[d] # <<>>

\* C13: send on a bound handle. send(h, s, m) on a handle bound to connection d
\* appends the one envelope {stream_id: s, msg: m} to what d was handed before,
\* hands nothing to any other connection and changes no registry state.
C13_BoundSend ==
    [][\A d \in H :
        (ret'.op = "send" /\ BoundDc(imp, ret'.h) = Some(d)) =>
            /\ Len(ret'.val) = 1
            /\ ret'.val[1].js = "object"
            /\ ret'.val[1].stream_id = ret'.s
            /\ ret'.val[1].msg \in Msgs
            /\ wire'[d] = Append(wire[d], ret'.val[1])
            /\ \A x \in H \ {d} : wire'[x] = wire[x]
            /\ imp' = imp]_vars

\* one connection was handed two envelopes of different streams, another
\* connection is bound and was handed none
C13_Witness ==
    /\ ret.op = "send"
    /\ \E d \in H :
          /\ BoundDc(imp, ret.h) = Some(d)
          /\ Len(wire[d]) = 2 /\ wire[d][1].stream_id # wire[d][2].stream_id
          /\ wire[d][2] = ret.val[1]
          /\ \E x \in H : x # d /\ BoundDc(imp, x) = Some(x) /\ wire[x] = <<>>

\* payloads a data closure may be called with, for the bodies evaluated below
SomePayloads == {[js |-> "object", stream_id |-> s, msg |-> 1] : s \in Streams}
                \cup {[js |-> "garbage"]}

\* C14: callbacks racing with close. A callback that refers to a handle that
\* close has removed is a no-op. The data-channel open of an inbound connection
\* whose listener was closed in the meantime changes nothing in the registry; in
\* every reachable state the bodies of the peer-open, data-channel-open and data
\* closures, run for a closed handle, return the registry as it is; a closed
\* handle is not registered again.
C14_LateCallbacksNoop ==
    [][/\ (ret'.op = "dc_open" /\ SrcOf(ret'.h) \notin DOMAIN imp.handle_map) =>
            imp' = imp
       /\ \A h \in closed' :
            /\ h \notin DOMAIN imp'.handle_map
            /\ connect_open_closure_body(imp', h) = imp'
            /\ \A d \in H : open_closure_body(imp', h, d) = imp'
            /\ \A data \in SomePayloads : data_closure_body(imp', h, data) = imp']_vars

\* the data channel of an inbound connection opens after its listener was
\* closed, while the connection itself and an outbound connection with a queued
\* event are registered
C14_Witness ==
    /\ ret.op = "dc_open" /\ KindOf(ret.h) = "accept"
    /\ SrcOf(ret.h) \in closed
    /\ Registered(ret.h)
    /\ \E c \in H : Registered(c) /\ KindOf(c) = "connect" /\ Queued(imp, c, 0) # <<>>

\* C15: a handle is freed on peer-initiated close. When the transport reports
\* that the connection of a registered handle h was closed by the remote peer,
\* the registry entry of h is removed.
C15_FreedOnPeerClose ==
    [][\A h \in H :
        (ret'.op = "dc_close" /\ ret'.h = h /\ h \in DOMAIN imp.handle_map) =>
            h \notin DOMAIN imp'.handle_map]_vars

FailureOps == {"peer_error", "dc_close", "dc_error", "bad_data"}

\* C16: a transport-level failure is terminal for its connection and only for
\* it. The failure leaves the entry, binding and queues of every other handle
\* unchanged and allocates no handle (no reconnect); the step after a failure on
\* h queues no event from the connection of h and hands no envelope of h to the
\* transport.
C16_FailureTerminal ==
    [][\A h \in H :
        /\ (ret'.op \in FailureOps /\ ret'.h = h) =>
              /\ \A x \in DOMAIN imp.handle_map \ {h} :
                    x \in DOMAIN imp'.handle_map /\ imp'.handle_map[x] = imp.handle_map[x]
              /\ imp'.next_handle = imp.next_handle
              /\ \A x \in H \ {h} : net'[x] = net[x]
        /\ (ret.op \in FailureOps /\ ret.h = h) =>
              /\ ~(ret'.op \in {"data", "dc_open"} /\ ret'.h = h)
              /\ ~(ret'.op = "send" /\ ret'.h = h /\ ret'.val # <<>>)]_vars

(* ----------------------- announcements and listeners -------------------- *)
\* every queued event is in the queue it belongs to: NewPeer in a stream-0 queue,
\* Data in the queue of its own stream id
QueuesTyped(i) ==
    \A h \in DOMAIN i.handle_map :
        \A s \in DOMAIN i.handle_map[h].received_msgs :
            \A k \in 1..Len(i.handle_map[h].received_msgs[s]) :
                LET e == i.handle_map[h].received_msgs[s][k] IN
                /\ e.type = "NewPeer" => s = 0
                /\ e.type = "Data" => e.data.stream_id = s
\* every queue of registry i other than that of (h, s) is what it is in j
OtherQueuesSame(i, j, h, s) ==
    /\ DOMAIN i.handle_map = DOMAIN j.handle_map
    /\ \A x \in DOMAIN i.handle_map :
          IF x = h
          THEN \A t \in (DOMAIN i.handle_map[x].received_msgs
                           \cup DOMAIN j.handle_map[x].received_msgs) \ {s} :
                  QueueOf(i, x, t) = QueueOf(j, x, t)
          ELSE i.handle_map[x] = j.handle_map[x]

\* C37: when the data channel of a connect handle h opens, one NewPeer(h) is
\* appended to the stream-0 queue of h itself and no other queue changes; and
\* at all times NewPeer events are in stream-0 queues only and a Data event with
\* stream id s is in a queue of stream s.
C37_ConnectAnnounce ==
    [][/\ (ret'.op = "dc_open" /\ ret'.h # 0 /\ Origin(ret'.h).kind = "connect") =>
             /\ Queued(imp', ret'.h, 0) = Append(Queued(imp, ret'.h, 0), NewPeer(ret'.h))
             /\ OtherQueuesSame(imp', imp, ret'.h, 0)
       /\ QueuesTyped(imp')]_vars

\* a connect handle holds its own NewPeer at the head of its stream-0 queue and
\* a Data event in the queue of another stream
C37_Witness ==
    \E h \in DOMAIN imp.handle_map :
        /\ Origin(h).kind = "connect"
        /\ Queued(imp, h, 0) # <<>>
        /\ Queued(imp, h, 0)[1] = NewPeer(h)
        /\ \E s \in Streams \ {0} :
              /\ Queued(imp, h, s) # <<>>
              /\ Queued(imp, h, s)[1].type = "Data"

\* C38: close of a registered listener L removes the entry of L and nothing
\* else: every other entry, those of the connections accepted through L
\* included, is what it was (binding, queues, next_stream_id). When the data
\* channel of a connection accepted through L opens after that, the connection
\* stays registered and the registry does not change: its NewPeer is queued
\* nowhere.
C38_ListenerClose ==
    [][/\ (/\ ret'.op = "close" /\ ret'.h # 0
           /\ ret'.h \in DOMAIN imp.handle_map
           /\ Origin(ret'.h).kind = "listen") =>
             imp'.handle_map = MapRemove(imp.handle_map, ret'.h)
       /\ (/\ ret'.op = "dc_open" /\ ret'.h # 0
           /\ Origin(ret'.h).kind = "accept"
           /\ Origin(ret'.h).src \notin DOMAIN imp.handle_map) =>
             /\ imp' = imp
             /\ ret'.h \in DOMAIN imp'.handle_map]_vars

\* the data channel of an accepted connection has just opened after its
\* listener was closed: the connection is registered and bound, no queue holds
\* an event
C38_Witness ==
    /\ ret.op = "dc_open" /\ ret.h # 0
    /\ Origin(ret.h).kind = "accept"
    /\ Origin(ret.h).src \in closed
    /\ ret.h \in DOMAIN imp.handle_map
    /\ IsSome(imp.handle_map[ret.h]._dc)
    /\ \A h \in DOMAIN imp.handle_map : \A s \in Streams : Queued(imp, h, s) = <<>>

(* ======================= properties of the snake layer =================== *)
\* the SnakeMsg of an envelope and the role that will process it
MsgOf(e) == e.upd.data.msg.snake
OwnerPeer == osnake.peers[1]
TrailData(trail) == [snake_points |-> trail, name |-> "", points_changed |-> TRUE]
\* the envelope e carries the incremental update of a trail of at least 4 points
IsIncrOfLong(e) ==
    /\ Len(e.of) >= 4
    /\ MsgOf(e) = IncrUpdate(TrailData(e.of))
\* the mirror, as it is now, accepts the update of envelope e
MirrorAccepts(e) ==
    /\ MsgOf(e).type = "EndUpdate"
    /\ remote_on_msg(MirrorRole, msnake.data, MsgOf(e)).sent = <<>>
MirrorAfter(e) == remote_on_msg(MirrorRole, msnake.data, MsgOf(e)).data.snake_points

\* C18 as stated: when the mirror accepts the incremental update of an owner
\* trail P of at least 4 points, its trail afterwards equals P, whatever its
\* trail was before.
C18_RoundTripAnyMirror ==
    o2m # <<>> =>
        ((IsIncrOfLong(o2m[1]) /\ MirrorAccepts(o2m[1])) => MirrorAfter(o2m[1]) = o2m[1].of)

\* C18 amended: when the mirror accepts the incremental update of an owner trail
\* P of n >= 4 points, its trail afterwards is its own first n - 2 points
\* followed by the last 2 points of P; it equals P when the mirror's first n - 2
\* points were those of P.
C18_RoundTrip ==
    o2m # <<>> =>
        LET e == o2m[1]
            P == e.of
            n == Len(P)
            M == msnake.data.snake_points
        IN (IsIncrOfLong(e) /\ MirrorAccepts(e)) =>
              /\ Len(M) >= n - 2
              /\ MirrorAfter(e) = SubSeq(M, 1, n - 2) \o SubSeq(P, n - 1, n)
              /\ SubSeq(M, 1, n - 2) = SubSeq(P, 1, n - 2) => MirrorAfter(e) = P

\* the mirror is about to accept the incremental update of a 4-point trail that
\* differs from its own trail in the last points only
C18_Witness ==
    /\ o2m # <<>>
    /\ IsIncrOfLong(o2m[1]) /\ MirrorAccepts(o2m[1])
    /\ msnake.data.snake_points # o2m[1].of
    /\ SubSeq(msnake.data.snake_points, 1, Len(o2m[1].of) - 2)
          = SubSeq(o2m[1].of, 1, Len(o2m[1].of) - 2)

\* C20: every snake's trail has at least 2 points in every reachable state: the
\* owner's after any sequence of grow and shrink frames, the mirror's after any
\* sequence of received updates, accepted or rejected; so get_start_points can
\* take the first 2 points.
C20_TrailAtLeast2 ==
    /\ Len(osnake.data.snake_points) >= 2
    /\ Len(msnake.data.snake_points) >= 2
    /\ Len(get_start_points(osnake)) = 2
    /\ Len(get_start_points(msnake)) = 2

\* the owner has shrunk back to 2 points after a longer trail was sent; the
\* mirror has applied an update and has rejected another one
C20_Witness ==
    /\ Len(osnake.data.snake_points) = 2 /\ osnake.data.points_changed
    /\ \E k \in DOMAIN o2m : Len(o2m[k].of) >= 3
    /\ msnake.data.snake_points # StartPoints
    /\ \E k \in DOMAIN m2o : MsgOf(m2o[k]) = FullUpdateReq

\* the trails A and B differ in exactly one coordinate of one point
OneCoordOff(A, B) ==
    /\ Len(A) = Len(B)
    /\ \E k \in DOMAIN A :
          /\ (A[k].x # B[k].x) # (A[k].y # B[k].y)
          /\ \A j \in DOMAIN A \ {k} : A[j] = B[j]

\* the resynchronization round trip of C19, step by step:
\* (a) a diff over a prefix that differs from the mirror's in one coordinate is
\*     discarded and answered by FullUpdateReq;
\* (b) the owner answers a FullUpdateReq by the snapshot of its trail;
\* (c) after the mirror has processed a snapshot its trail is the trail the
\*     owner had when it sent the snapshot.
C19_ResyncRoundTrip ==
    /\ o2m # <<>> =>
          LET e == o2m[1]
              m == MsgOf(e)
              r == remote_on_msg(MirrorRole, msnake.data, m)
          IN /\ (/\ m.prev_segs >= 1
                 /\ Len(msnake.data.snake_points) >= m.prev_segs
                 /\ OneCoordOff(SubSeq(msnake.data.snake_points, 1, m.prev_segs),
                                SubSeq(e.of, 1, m.prev_segs)))
                   => /\ r.sent = <<Sent(PeerHandle, SnakeStream, NetMsg_Snake(FullUpdateReq))>>
                      /\ r.data = msnake.data
             /\ m.prev_segs = 0 => r.sent = <<>> /\ r.data.snake_points = e.of
    /\ (m2o # <<>> /\ MsgOf(m2o[1]) = FullUpdateReq) =>
          LET r == SnakePeer_think(OwnerPeer, [osnake.data EXCEPT !.points_changed = FALSE],
                                   <<m2o[1].upd>>, now)
          IN r.sent = <<Sent(PeerHandle, SnakeStream, NetMsg_Snake(FullUpdate(osnake.data)))>>

\* nothing is in flight and the owner's trail is at rest (2 points: a frame
\* without the mouse pressed changes nothing and sends nothing)
Quiescent ==
    /\ o2m = <<>> /\ m2o = <<>>
    /\ Len(osnake.data.snake_points) = 2

\* C19: desynchronization self-heals in one extra round trip: a diff over a
\* differing prefix makes the mirror send FullUpdateReq, the owner answers by a
\* snapshot, after which the mirror's trail is the owner's; and the mirror never
\* stays desynchronized: once every message is delivered and processed and the
\* owner's trail is at rest, the mirror's trail equals the owner's.
C19_SelfHeals ==
    /\ C19_ResyncRoundTrip
    /\ Quiescent => msnake.data.snake_points = osnake.data.snake_points

(* ======================= properties of the game layer ==================== *)
\* C17 as stated: no reachable state of the host and client game loops aborts
\* the process, for any number of clients connecting to one host and any
\* interleaving of connection events, data arrivals and frames: no step fails on
\* a missing handle, on an empty start-point list or on a trail slice.
C17_NoAbort ==
    \A p \in Procs : panicked[p] = NoPanic

(* ------------------------- the host introduces itself -------------------- *)
\* the events a poll of the host's listener returns in the current state
ListenEvents == Queued(games[Host].network, games[Host].listen_handle, 0)
\* the host's frame when it reaches the k-th of them
HostAt(k) ==
    LET e == get_handle_events(games[Host].network, games[Host].listen_handle, 0)
    IN events_fold("listen", [Running(games[Host]) EXCEPT !.g.network = e.imp],
                   SubSeq(e.ret, 1, k - 1))
\* the envelope that carries msg on stream 0 of the data connection h
OnStream0(h, msg) == [dc |-> h, encoded |-> to_value(NetData(0, msg))]
\* the roles (peer roles and remote roles) of the snakes on connection h
RolesOn(snakes, h) ==
    UNION {{snakes[j].peers[n].stream_id : n \in {n \in DOMAIN snakes[j].peers :
                                                   snakes[j].peers[n].peer = h}}
              : j \in DOMAIN snakes}
    \cup {Unwrap(snakes[j].remote_imp).stream_id :
             j \in {j \in DOMAIN snakes : /\ IsSome(snakes[j].remote_imp)
                                         /\ Unwrap(snakes[j].remote_imp).peer = h}}

\* C32: host introduction. On each NewPeer(h) the host first sends the current
\* start-point advertisement to h on stream 0 and then, for each existing
\* snake, allocates a fresh stream id on h, attaches one peer role (h, id) to
\* that snake and sends one SnakeIntro on stream 0 carrying that id and the
\* snake's first two points; the ids given to different snakes on the same
\* connection are pairwise different.
C32_HostIntroduces ==
    (panicked[Host] = NoPanic /\ games[Host].listen_handle # invalid) =>
       \A k \in DOMAIN ListenEvents :
          ListenEvents[k].type = "NewPeer" =>
             LET h == ListenEvents[k].handle
                 st == HostAt(k)
                 st2 == on_listen_event(st, ListenEvents[k])
                 n == Len(st.g.snakes)
                 new == SubSeq(st2.out, Len(st.out) + 1, Len(st2.out))
                 id == [j \in 1..n |->
                          st2.g.snakes[j].peers[Len(st2.g.snakes[j].peers)].stream_id]
             IN /\ st2.panic = NoPanic
                /\ Len(new) = n + 1
                /\ new[1] = OnStream0(h, StartPointsUpdate(st.g.possible_start_points))
                /\ Len(st2.g.snakes) = n
                /\ st2.g.possible_start_points = st.g.possible_start_points
                /\ \A j \in 1..n :
                      /\ st2.g.snakes[j] = add_peer(st.g.snakes[j], h, id[j])
                      /\ id[j] \notin RolesOn(st.g.snakes, h)
                      /\ new[j + 1] =
                            OnStream0(h, SnakeIntro("IamHost", id[j],
                                         SubSeq(st.g.snakes[j].data.snake_points, 1, 2)))
                /\ \A i, j \in 1..n : i # j => id[i] # id[j]

\* the host has just introduced two snakes (its own and a mirror) to a client:
\* the advertisement and two introductions with different ids are in flight,
\* and both snakes have a peer role on that client's connection
C32_Witness ==
    \E c \in Clients :
       /\ Len(games[Host].snakes) = 2
       /\ Len(links[c].to_client) = 3
       /\ from_value(links[c].to_client[1]).val.msg.type = "StartPointsUpdate"
       /\ from_value(links[c].to_client[2]).val.msg.type = "SnakeIntro"
       /\ from_value(links[c].to_client[3]).val.msg.type = "SnakeIntro"
       /\ from_value(links[c].to_client[2]).val.msg.snake_stream_id
             # from_value(links[c].to_client[3]).val.msg.snake_stream_id
       /\ \A j \in 1..2 : \E n \in DOMAIN games[Host].snakes[j].peers :
             games[Host].snakes[j].peers[n].peer = links[c].host_dc

(* --------------------------- claiming start points ----------------------- *)
\* the locally-owned snakes of the game: <<process, index in its snake list>>
OwnSnakes ==
    {e \in Procs \X (1..(MaxClients + 1)) :
        /\ e[2] <= Len(games[e[1]].snakes)
        /\ IsSome(games[e[1]].snakes[e[2]].own_imp)}
\* the start-point set a snake was created from (no process presses the mouse,
\* so a locally-owned trail stays what new_local was given)
CreatedFrom(e) == games[e[1]].snakes[e[2]].data.snake_points
\* the host's mirrors of the snakes of client c
MirrorsOf(c) ==
    {j \in DOMAIN games[Host].snakes :
        /\ IsSome(games[Host].snakes[j].remote_imp)
        /\ links[c].host_dc # invalid
        /\ Unwrap(games[Host].snakes[j].remote_imp).peer = links[c].host_dc}

\* C33 as stated: a client claims a start-point set that no other snake holds.
\* For any number of clients and any interleaving of their connections and
\* announcements, no two snakes of the game (the host's own and the clients')
\* are created from the same start-point set, and a set claimed by a client
\* (its introduction read by the host) is not in the host's list of possible
\* start points any more.
C33_DistinctStartPoints ==
    /\ \A a, b \in OwnSnakes : a # b => CreatedFrom(a) # CreatedFrom(b)
    /\ \A c \in Clients : \A j \in MirrorsOf(c) :
          \A n \in DOMAIN games[Host].possible_start_points :
             games[Host].possible_start_points[n]
                # SubSeq(games[Host].snakes[j].data.snake_points, 1, 2)

(* ------------------------ the host serves its clients -------------------- *)
\* the SnakeIntro messages among the events q
IntrosIn(q) ==
    SelectSeq(q, LAMBDA u : u.type = "Data" /\ u.data.msg.type = "SnakeIntro")
\* the snakes of g that mirror the snake announced on (peer, stream_id)
MirrorsBound(g, peer, stream_id) ==
    {j \in DOMAIN g.snakes :
        g.snakes[j].remote_imp = Some([peer |-> peer, stream_id |-> stream_id])}

\* C34 as stated: the host serves every accepted client. For each client
\* connected to the host's listener, also when several clients connect (in the
\* same frame or one after another), the host keeps polling that client's
\* stream 0: whatever waits on stream 0 of an open accepted connection is
\* consumed by the host's next frame, and every SnakeIntro among it yields
\* exactly one mirror snake bound to that client's handle and announced stream
\* id.
C34_HostServesEveryClient ==
    panicked[Host] = NoPanic =>
       \A c \in Clients :
          links[c].host_open =>
             LET h == links[c].host_dc
                 q == Queued(games[Host].network, h, 0)
                 after == GameState_think(games[Host]).g
             IN /\ Queued(after.network, h, 0) = <<>>
                /\ \A k \in DOMAIN IntrosIn(q) :
                      Cardinality(MirrorsBound(after, h,
                                     IntrosIn(q)[k].data.msg.snake_stream_id)) = 1

(* ---------------------------------- pings -------------------------------- *)
\* the Ping requests (positive time) among the events q
PingRequests(q) == SelectSeq(q, LAMBDA u : IsPing(u) /\ u.data.msg.time > 0)
\* the answers the claim expects to what waits on stream 0 of handle h of
\* process p: one Ping(-time) per request, on stream 0 of h
AnswersDue(p, h) ==
    LET reqs == PingRequests(Queued(games[p].network, h, 0))
    IN [k \in 1..Len(reqs) |-> OnStream0(h, Ping(-reqs[k].data.msg.time))]

\* the client connection whose stream 0 the next frame of process p polls: the
\* one of the last NewPeer
ClientPolled(p) ==
    poll_loop("listen", Running(games[p]), games[p].listen_handle).g.client_handle

\* C35 as stated: a Ping request (positive time) received on stream 0 of a
\* connection is answered with Ping(-time) sent on stream 0 of that same
\* connection, on the host as well as on the client, and a Ping response
\* (negative time) is never answered: the Ping messages a frame sends are
\* exactly the answers to the requests it reads from its connection to the
\* host and from its client's connection.
C35_PingRoundTrip ==
    \A p \in Procs :
       panicked[p] = NoPanic =>
          LET out == GameState_think(games[p]).out
              pings == SelectSeq(out, LAMBDA o : from_value(o.encoded).val.msg.type = "Ping")
          IN pings = AnswersDue(p, games[p].connect_handle)
                        \o AnswersDue(p, ClientPolled(p))

(* ----------------------- the client's own peer role ---------------------- *)
\* the events a poll of stream 0 of client c's connection returns
ConnectEvents(c) == Queued(games[c].network, games[c].connect_handle, 0)
\* client c's frame when it reaches the k-th of them
ClientAt(c, k) ==
    LET s1 == poll_loop("listen", Running(games[c]), games[c].listen_handle)
        e == get_handle_events(s1.g.network, s1.g.connect_handle, 0)
    IN events_fold("connect", [s1 EXCEPT !.g.network = e.imp], SubSeq(e.ret, 1, k - 1))

\* C36: on a client, the peer role created when it claims start points is
\* attached to the client's own locally-owned snake and never to a mirror: in
\* every reachable order of StartPointsUpdate and SnakeIntro messages on stream
\* 0, the snake at index 0 of the client's list is the locally-owned one when
\* the peer role is added. No mirror of a client ever has a peer role.
C36_OwnPeerRole ==
    \A c \in Clients :
       /\ \A j \in DOMAIN games[c].snakes :
             IsSome(games[c].snakes[j].remote_imp) => games[c].snakes[j].peers = <<>>
       /\ panicked[c] = NoPanic =>
             \A k \in DOMAIN ConnectEvents(c) :
                LET ev == ConnectEvents(c)[k] IN
                (ev.type = "Data" /\ ev.data.msg.type = "StartPointsUpdate"
                    /\ ev.data.msg.pts # <<>>) =>
                   LET st == ClientAt(c, k)
                       before == st.g.snakes
                       after == on_connect_event(st, ev).g.snakes
                   IN /\ Len(after) = Len(before) + 1
                      /\ IsSome(after[1].own_imp) /\ after[1].remote_imp = None
                      /\ Len(after[1].peers) =
                            (IF before = <<>> THEN 0 ELSE Len(before[1].peers)) + 1
                      /\ after[1].peers[Len(after[1].peers)].peer = st.g.connect_handle
                      /\ \A j \in 2..Len(after) : after[j].peers = <<>>

\* a client has claimed start points and has then read an introduction: its
\* own snake, with the peer role, is at index 0 and a mirror follows it
C36_Witness ==
    \E c \in Clients :
       /\ Len(games[c].snakes) >= 2
       /\ IsSome(games[c].snakes[1].own_imp)
       /\ Len(games[c].snakes[1].peers) = 1
       /\ games[c].snakes[1].peers[1].peer = games[c].connect_handle
       /\ IsSome(games[c].snakes[2].remote_imp)

(* ----------------------- the roles of a snake, tick by tick -------------- *)
\* the step is a frame of the mirror that polled exactly one update
MirrorPolledOne == o2m # <<>> /\ o2m' = Tail(o2m)
\* the update at the head of the mirror's stream fails the length test or the
\* checksum test against the trail T
FailsTests(m, T) ==
    \/ m.prev_segs > Len(T)
    \/ /\ m.prev_segs <= Len(T)
       /\ SumXY(SubSeq(T, 1, m.prev_segs)) # m.prev_segs_sum

\* C23: mirror rejection. A mirror that processes an EndUpdate whose prev_segs
\* exceeds its trail length, or whose prev_segs_sum differs from the sum of x + y
\* over its first prev_segs points, sends exactly one FullUpdateReq on its own
\* (peer, stream) and discards the update: trail unchanged, dirty flag not set;
\* the checksum never slices past the end of the trail.
C23_MirrorRejects ==
    [][MirrorPolledOne =>
          LET m == MsgOf(o2m[1])
              T == msnake.data.snake_points
          IN (m.type = "EndUpdate" /\ FailsTests(m, T)) =>
                /\ Len(m2o') = Len(m2o) + 1
                /\ SubSeq(m2o', 1, Len(m2o)) = m2o
                /\ m2o'[Len(m2o')].upd =
                      Data(NetData(MirrorRole.stream_id, NetMsg_Snake(FullUpdateReq)))
                /\ msnake'.data.snake_points = T
                /\ ~msnake'.data.points_changed
                /\ ~remote_on_msg(MirrorRole, msnake.data, m).oob]_vars

\* the mirror has rejected an update and not changed since (its request is on
\* the way), and the next update is longer than its trail
C23_Witness ==
    /\ m2o # <<>>
    /\ MsgOf(m2o[Len(m2o)]) = FullUpdateReq
    /\ m2o[Len(m2o)].of = msnake.data.snake_points
    /\ ~msnake.data.points_changed
    /\ o2m # <<>> /\ MsgOf(o2m[1]).prev_segs > Len(msnake.data.snake_points)

\* C24: mirror acceptance. A mirror that processes an EndUpdate passing the
\* length and checksum tests has as its new trail its first prev_segs points,
\* unchanged, followed by last_segs in order; the dirty flag is set and no
\* message is sent.
C24_MirrorAccepts ==
    [][MirrorPolledOne =>
          LET m == MsgOf(o2m[1])
              T == msnake.data.snake_points
              U == msnake'.data.snake_points
          IN (m.type = "EndUpdate" /\ ~FailsTests(m, T)) =>
                /\ Len(U) = m.prev_segs + Len(m.last_segs)
                /\ \A k \in 1..m.prev_segs : U[k] = T[k]
                /\ \A k \in 1..Len(m.last_segs) : U[m.prev_segs + k] = m.last_segs[k]
                /\ msnake'.data.points_changed
                /\ m2o' = m2o]_vars

\* the mirror has just applied an update over a prefix it kept: it is dirty, has
\* more than 2 points and has sent nothing
C24_Witness ==
    /\ msnake.data.points_changed
    /\ Len(msnake.data.snake_points) >= 4
    /\ m2o = <<>>


\* a frame of the owning process, the FullUpdateReq its peer role drained in it
\* and the envelopes it put on the stream
OwnerTicked == now' > now
Drained == Len(m2o) - Len(m2o')
NewOut == SubSeq(o2m', Len(o2m) + 1, Len(o2m'))
SnapshotOf(trail) ==
    Data(NetData(OwnerPeer.stream_id, NetMsg_Snake(EndUpdate(0, 0, trail))))

\* C25: for each FullUpdateReq the peer role drains in a tick it sends, in that
\* tick and on its own stream, one EndUpdate with prev_segs 0, prev_segs_sum 0 and
\* the whole current trail, before anything else it sends, whatever the dirty
\* flag and the throttle are; a tick that sends only replies leaves
\* next_send_time as it was, and one that also sends an incremental update sets
\* it as a tick without requests does.
C25_SnapshotReply ==
    [][OwnerTicked =>
          /\ Len(NewOut) \in {Drained, Drained + 1}
          /\ \A j \in 1..Drained :
                NewOut[j].upd = SnapshotOf(osnake'.data.snake_points)
          /\ Len(NewOut) = Drained =>
                OwnerPeer'.next_send_time = OwnerPeer.next_send_time
          /\ Len(NewOut) = Drained + 1 =>
                OwnerPeer'.next_send_time = now' + Throttle]_vars

\* a tick that was dirty but throttled has just answered a request with the
\* snapshot of a trail of more than 2 points
C25_Witness ==
    /\ osnake.data.points_changed
    /\ OwnerPeer.next_send_time > now
    /\ osentAt[1] # now
    /\ o2m # <<>>
    /\ o2m[Len(o2m)].upd = SnapshotOf(osnake.data.snake_points)
    /\ Len(osnake.data.snake_points) > 2

\* C26: the incremental update of a tick describes the trail as it is after the
\* owner role's update in that tick: for a trail of n > 2 points prev_segs is
\* n - 2, prev_segs_sum the sum of x + y over the first n - 2 points and last_segs
\* the last 2 points; for n <= 2 it is 0, 0 and the whole trail; in both cases
\* prev_segs + Len(last_segs) = n.
C26_IncrEncoding ==
    [][(OwnerTicked /\ Len(NewOut) = Drained + 1) =>
          LET m == MsgOf(NewOut[Drained + 1])
              P == osnake'.data.snake_points
              n == Len(P)
          IN /\ m.type = "EndUpdate"
             /\ n > 2 => /\ m.prev_segs = n - 2
                         /\ m.prev_segs_sum = SumXY(SubSeq(P, 1, n - 2))
                         /\ m.last_segs = <<P[n - 1], P[n]>>
             /\ n <= 2 => /\ m.prev_segs = 0
                          /\ m.prev_segs_sum = 0
                          /\ m.last_segs = P
             /\ m.prev_segs + Len(m.last_segs) = n]_vars

\* the last tick sent the incremental update of a trail of 4 points or more
\* whose unchanged prefix has a checksum other than 0
C26_Witness ==
    /\ osentAt[1] = now
    /\ o2m # <<>>
    /\ o2m[Len(o2m)].of = osnake.data.snake_points
    /\ MsgOf(o2m[Len(o2m)]).prev_segs = Len(osnake.data.snake_points) - 2
    /\ MsgOf(o2m[Len(o2m)]).prev_segs >= 2
    /\ MsgOf(o2m[Len(o2m)]).prev_segs_sum > 0

\* the peer role sends one incremental update in this tick, or none
SendsIncr == Len(NewOut) = Drained + 1
SendsNoIncr == Len(NewOut) = Drained

\* C27, as the code has it: a tick sends one incremental update when the dirty
\* flag is set and MORE than 100 ms of game time have passed since the last
\* incremental update on the stream (or none was sent yet), and none otherwise.
C27_SendCondition ==
    [][OwnerTicked =>
          IF /\ osnake'.data.points_changed
             /\ (osentAt[1] = -1 \/ now' - osentAt[1] > Throttle)
          THEN SendsIncr ELSE SendsNoIncr]_vars

\* C27, as stated: ... when the dirty flag is set and AT LEAST 100 ms have passed
\* since the last incremental update (or none was sent yet), and none when the
\* flag is not set or less than 100 ms have passed.
C27_SendConditionAtLeast ==
    [][OwnerTicked =>
          /\ (/\ osnake'.data.points_changed
              /\ (osentAt[1] = -1 \/ now' - osentAt[1] >= Throttle)) => SendsIncr
          /\ (\/ ~osnake'.data.points_changed
              \/ (osentAt[1] # -1 /\ now' - osentAt[1] < Throttle)) => SendsNoIncr]_vars

\* a dirty tick exactly 100 ms after the last incremental update has sent nothing
C27_Witness ==
    /\ osnake.data.points_changed
    /\ osentAt[1] # -1
    /\ now - osentAt[1] = Throttle
    /\ OwnerPeer.next_send_time = now


\* the trail of the owner and the trail OwnSnakeImp::think makes of it
OwnTrail == osnake.data.snake_points
TrailAfter(is_down, mouse_pos, cur) ==
    OwnSnakeImp_think(osnake.data, is_down, mouse_pos, cur).snake_points

\* the example of a growth tick: from [(200,200),(300,300)] towards (400,400),
\* wherever on the way the Interpolable stops, the trail has 3 points afterwards
C29_Example ==
    \A j \in 0..10 :
        LET cur == Pos(300 + 10 * j, 300 + 10 * j)
            after == OwnSnakeImp_think(TrailData(<<Pos(200, 200), Pos(300, 300)>>),
                                       TRUE, Pos(400, 400), cur).snake_points
        IN after = <<Pos(200, 200), cur, cur>>

\* C29: a growth tick (pointer pressed, target other than the last point) moves
\* only the last point, to the point the Interpolable gives (on the way to the
\* target, never past it), leaves the earlier points alone and appends at most
\* one point: a duplicate of the new last point, exactly when the new last point
\* is more than 20 from the point before it.
C29_GrowthTick ==
    /\ \A mouse_pos \in Pts :
          \A cur \in OnWay(OwnTrail[Len(OwnTrail)], mouse_pos) :
              mouse_pos # OwnTrail[Len(OwnTrail)] =>
                  LET n == Len(OwnTrail)
                      q == TrailAfter(TRUE, mouse_pos, cur)
                  IN /\ Len(q) \in {n, n + 1}
                     /\ \A j \in 1..(n - 1) : q[j] = OwnTrail[j]
                     /\ q[n] = cur
                     /\ Len(q) = n + 1 <=> Dist2(q[n], OwnTrail[n - 1]) > 20 * 20
                     /\ Len(q) = n + 1 => q[n + 1] = q[n]
    /\ C29_Example

\* a growth tick has just appended the duplicate of a last point that is more
\* than 20 from the point before it, to a trail of 3 points or more
C29_Witness ==
    /\ osnake.data.points_changed
    /\ Len(OwnTrail) >= 4
    /\ OwnTrail[Len(OwnTrail)] = OwnTrail[Len(OwnTrail) - 1]
    /\ Dist2(OwnTrail[Len(OwnTrail)], OwnTrail[Len(OwnTrail) - 2]) > 20 * 20

\* shrink ticks at a speed that covers the rest of the segment in one tick
RECURSIVE ShrinkTicks(_, _)
ShrinkTicks(data, ticks) ==
    IF ticks = 0 THEN data
    ELSE ShrinkTicks(OwnSnakeImp_think(data, FALSE, Pos(0, 0),
                                       data.snake_points[Len(data.snake_points) - 1]),
                     ticks - 1)

\* C30: a shrink tick (pointer released, more than 2 points) either moves the
\* last point towards the second-to-last one and keeps the length, or, when it
\* reaches the second-to-last point exactly, removes it: the length drops by one;
\* the other points are unchanged. With exactly 2 points the trail is unchanged.
\* A tick in which the point advances brings the trail closer to length 2 (a
\* shorter trail, or a shorter last segment), and ticks that cover the segment
\* reach length 2, where further ticks change nothing.
C30_ShrinkTick ==
    \A mouse_pos \in Pts :
        LET n == Len(OwnTrail) IN
        /\ n > 2 =>
              \A cur \in OnWay(OwnTrail[n], OwnTrail[n - 1]) :
                  LET q == TrailAfter(FALSE, mouse_pos, cur) IN
                  /\ cur # OwnTrail[n - 1] =>
                        /\ Len(q) = n
                        /\ q[n] = cur
                        /\ \A j \in 1..(n - 1) : q[j] = OwnTrail[j]
                  /\ cur = OwnTrail[n - 1] => q = SubSeq(OwnTrail, 1, n - 1)
                  /\ cur # OwnTrail[n] =>
                        \/ Len(q) < n
                        \/ Dist2(q[n], q[n - 1]) < Dist2(OwnTrail[n], OwnTrail[n - 1])
        /\ n = 2 =>
              \A cur \in Pts :
                  OwnSnakeImp_think(osnake.data, FALSE, mouse_pos, cur) = osnake.data
        /\ n >= 2 =>
              /\ ShrinkTicks(osnake.data, n - 2).snake_points = SubSeq(OwnTrail, 1, 2)
              /\ ShrinkTicks(osnake.data, n - 1).snake_points = SubSeq(OwnTrail, 1, 2)

\* a shrink tick has just removed the last point of a trail of 3 points: no
\* growth tick leaves 2 points with the last one 30 from the first
C30_Witness ==
    /\ osnake.data.points_changed
    /\ OwnTrail = <<Pos(0, 0), Pos(0, 30)>>


\* The owner's trail has stopped changing: a frame with the pointer released,
\* whenever it comes and with nothing to poll, leaves the snake as it is and
\* sends nothing. The same for the mirror.
IdleInput(mouse_pos, cur, t) ==
    [is_down |-> FALSE, mouse_pos |-> mouse_pos, cur |-> cur, now |-> t]
OwnerAtRest ==
    \A dt \in FrameTimes, mouse_pos \in Pts, cur \in Pts :
        LET r == Snake_think(osnake, <<>>, <<<<>>>>, IdleInput(mouse_pos, cur, now + dt))
        IN r.sent = <<>> /\ r.snake = osnake
MirrorAtRest ==
    LET r == Snake_think(msnake, <<>>, <<>>, IdleInput(Pos(0, 0), Pos(0, 0), mnow))
    IN r.sent = <<>> /\ r.snake.data.snake_points = msnake.data.snake_points

\* C22 as stated, on finite runs: once the owner's trail has stopped changing
\* and every message sent has been delivered and processed, the mirror's trail
\* equals the owner's (from such a state no frame sends anything, so a mirror
\* that differs there never becomes equal); in particular a change made while
\* the throttle was active has been transmitted.
C22_ConsistentAtRest ==
    (o2m = <<>> /\ m2o = <<>> /\ OwnerAtRest /\ MirrorAtRest) =>
        msnake.data.snake_points = osnake.data.snake_points


(* ----------------------- a mirror on the host, with later clients -------- *)
\* a frame of the host (its game time advances), and what the mirror puts on
\* its inbound stream in it
MirrorTicked == mnow' > mnow
NewBack == SubSeq(m2o', Len(m2o) + 1, Len(m2o'))

\* C21, as the code has it: on its own inbound stream a mirror sends only
\* FullUpdateReq. A mirror on the host has a peer role for every client that
\* joined after it, and on these streams, and on no other, it sends EndUpdate:
\* the incremental update of its own trail as it is after the frame. A mirror
\* without peer roles sends nothing else.
C21_MirrorSends ==
    [][MirrorTicked =>
          /\ \A j \in 1..Len(NewBack) :
                NewBack[j].upd =
                    Data(NetData(MirrorRole.stream_id, NetMsg_Snake(FullUpdateReq)))
          /\ \A j \in 1..Len(relayed') :
                /\ \E k \in 1..Len(msnake.peers) :
                      /\ relayed'[j].peer = msnake.peers[k].peer
                      /\ relayed'[j].stream_id = msnake.peers[k].stream_id
                /\ ~(relayed'[j].peer = MirrorRole.peer
                     /\ relayed'[j].stream_id = MirrorRole.stream_id)
                /\ relayed'[j].msg = NetMsg_Snake(IncrUpdate(msnake'.data))
          /\ msnake.peers = <<>> => relayed' = <<>>]_vars

\* C21, as stated: a mirror never sends EndUpdate on any stream, on a host with
\* any number of clients; all it ever sends is FullUpdateReq on its inbound stream.
C21_OnlyFullUpdateReq ==
    /\ \A j \in 1..Len(relayed) : relayed[j].msg.snake.type # "EndUpdate"
    /\ relayed = <<>>
    /\ \A j \in 1..Len(m2o) : MsgOf(m2o[j]) = FullUpdateReq

\* the mirror on a host with two later clients has just sent each of them the
\* incremental update of a trail of more than 2 points
C21_Witness ==
    /\ Len(relayed) = 2
    /\ relayed[1].peer # relayed[2].peer
    /\ relayed[1].msg.snake.type = "EndUpdate"
    /\ relayed[1].msg.snake.prev_segs > 0

\* the messages of the host's last frame on the stream of the mirror's k-th peer role
RelayedTo(msgs, k) ==
    SentTo(msgs, msnake.peers[k].peer, msnake.peers[k].stream_id)

\* C28: on one peer stream two consecutive incremental updates are at least
\* 100 ms of game time apart, and the peer roles of a snake are throttled
\* independently: a peer role that sends nothing in a frame keeps its
\* next_send_time, whatever the other peer roles send in it.
C28_ThrottleBound ==
    [][/\ MirrorTicked =>
             \A k \in 1..Len(msnake.peers) :
                 /\ Len(RelayedTo(relayed', k)) \in {0, 1}
                 /\ Len(RelayedTo(relayed', k)) = 1 =>
                       /\ msentAt[k] = -1 \/ mnow' - msentAt[k] >= Throttle
                       /\ msnake'.peers[k].next_send_time = mnow' + Throttle
                 /\ Len(RelayedTo(relayed', k)) = 0 =>
                       /\ msnake'.peers[k].next_send_time = msnake.peers[k].next_send_time
                       /\ msentAt'[k] = msentAt[k]
       /\ (OwnerTicked /\ SendsIncr) =>
             osentAt[1] = -1 \/ now' - osentAt[1] >= Throttle]_vars

\* in a dirty frame the mirror's first peer role, which had sent less than 100 ms
\* before, was throttled, while the second one sent; the first one has sent twice
\* or the second one has
C28_Witness ==
    /\ Len(msnake.peers) = 2
    /\ msnake.data.points_changed
    /\ Len(relayed) = 1
    /\ relayed[1].peer = msnake.peers[2].peer
    /\ msentAt[1] # -1
    /\ msentAt[2] = mnow
    /\ mnow - msentAt[1] < Throttle
    /\ msnake.peers[1].next_send_time # msnake.peers[2].next_send_time


(* ----------------------- the dirty flag ---------------------------------- *)
\* a tick of the owner snake on the given input with nothing to poll, and a tick
\* of the mirror snake on the first k updates that wait for it
OwnerTick(is_down, mouse_pos, cur, t) ==
    Snake_think(osnake, <<>>, <<<<>>>>,
                [is_down |-> is_down, mouse_pos |-> mouse_pos, cur |-> cur, now |-> t])
MirrorTick(k) ==
    Snake_think(msnake, Upds(o2m, k), [j \in 1..Len(msnake.peers) |-> <<>>],
                IdleInput(Pos(0, 0), Pos(0, 0), mnow))
\* the same ticks of a snake whose flag was left set, and left clear
WithFlag(snake, flag) == [snake EXCEPT !.data.points_changed = flag]

\* C31: the dirty flag after a tick does not depend on the flag before it (it is
\* cleared first); a tick in which the owner role or an accepted diff changes
\* a point of the trail ends with the flag set, and the peer role ticked in that
\* frame sees it (it sends when its throttle allows); a tick with the pointer
\* pressed on the last point, or released on a trail of 2 points, and a tick of
\* the mirror that accepts no diff leave the trail as it is and the flag clear.
C31_DirtyFlag ==
    /\ \A is_down \in BOOLEAN, mouse_pos \in Pts :
          \A cur \in OnWay(OwnTrail[Len(OwnTrail)], OwnTarget(osnake.data, is_down, mouse_pos)) :
              \A dt \in FrameTimes :
                  LET in == [is_down |-> is_down, mouse_pos |-> mouse_pos,
                             cur |-> cur, now |-> now + dt]
                      r == OwnerTick(is_down, mouse_pos, cur, now + dt)
                  IN /\ Snake_think(WithFlag(osnake, TRUE), <<>>, <<<<>>>>, in)
                           = Snake_think(WithFlag(osnake, FALSE), <<>>, <<<<>>>>, in)
                     /\ r.snake.data.snake_points # OwnTrail => r.snake.data.points_changed
                     /\ (r.snake.data.points_changed /\ OwnerPeer.next_send_time < now + dt)
                           => Len(r.sent) = 1
                     /\ ~r.snake.data.points_changed => r.sent = <<>>
                     /\ ((is_down /\ mouse_pos = OwnTrail[Len(OwnTrail)])
                           \/ (~is_down /\ Len(OwnTrail) = 2)) =>
                              /\ r.snake.data.snake_points = OwnTrail
                              /\ ~r.snake.data.points_changed
    /\ \A k \in 0..Len(o2m) :
          LET r == MirrorTick(k)
              T == msnake.data.snake_points
          IN /\ Snake_think(WithFlag(msnake, TRUE), Upds(o2m, k),
                            [j \in 1..Len(msnake.peers) |-> <<>>],
                            IdleInput(Pos(0, 0), Pos(0, 0), mnow)) = r
             /\ r.snake.data.snake_points # T => r.snake.data.points_changed
             /\ (k = 0 \/ (k = 1 /\ (MsgOf(o2m[1]).type # "EndUpdate"
                                      \/ FailsTests(MsgOf(o2m[1]), T)))) =>
                   /\ r.snake.data.snake_points = T
                   /\ ~r.snake.data.points_changed
             /\ (k = 1 /\ MsgOf(o2m[1]).type = "EndUpdate" /\ ~FailsTests(MsgOf(o2m[1]), T)) =>
                   r.snake.data.points_changed

\* the owner's flag is clear again after a tick that had set it and sent the
\* diff, while the mirror's flag is set by the diff it accepted
C31_Witness ==
    /\ ~osnake.data.points_changed
    /\ osentAt[1] # -1
    /\ OwnTrail # StartPoints
    /\ msnake.data.points_changed
    /\ msnake.data.snake_points # StartPoints


(* ----------------------- snapshots and unexpected events ----------------- *)
\* the update is a snapshot: an EndUpdate with prev_segs 0 and prev_segs_sum 0
IsSnapshot(upd) ==
    /\ upd.type = "Data"
    /\ upd.data.msg.type = "Snake"
    /\ upd.data.msg.snake.type = "EndUpdate"
    /\ upd.data.msg.snake.prev_segs = 0
    /\ upd.data.msg.snake.prev_segs_sum = 0

\* C39: a mirror never rejects a snapshot, whatever its trail is: the frame that
\* processes one sends nothing and leaves the mirror with exactly last_segs as
\* its trail (and the flag set). Stated for the frame that has just polled one
\* snapshot, and for every snapshot the mirror as it is now could be given.
C39_SnapshotAccepted ==
    /\ (lastFrame.by = "mirror" /\ Len(lastFrame.upds) = 1 /\ IsSnapshot(lastFrame.upds[1])) =>
          /\ lastFrame.sent = <<>>
          /\ msnake.data.snake_points = lastFrame.upds[1].data.msg.snake.last_segs
          /\ msnake.data.points_changed
    /\ \A L \in SnapTrails \cup {osnake.data.snake_points} :
          LET r == remote_on_msg(MirrorRole, msnake.data, EndUpdate(0, 0, L))
          IN /\ r.sent = <<>>
             /\ r.data.snake_points = L
             /\ r.data.points_changed

\* the mirror has just replaced a trail of 3 points by the 3 points of a
\* snapshot that has another first point
C39_Witness ==
    /\ lastFrame.by = "mirror"
    /\ Len(lastFrame.upds) = 1
    /\ IsSnapshot(lastFrame.upds[1])
    /\ Len(lastFrame.before.data.snake_points) = 3
    /\ Len(msnake.data.snake_points) = 3
    /\ msnake.data.snake_points[1] # lastFrame.before.data.snake_points[1]

\* what each role expects on the snake's stream: the remote role EndUpdate, the
\* peer role FullUpdateReq
IsSnakeMsg(upd, type) ==
    /\ upd.type = "Data"
    /\ upd.data.msg.type = "Snake"
    /\ upd.data.msg.snake.type = type
ForRemote(upds) == SelectSeq(upds, LAMBDA u : IsSnakeMsg(u, "EndUpdate"))
ForPeer(upds) == SelectSeq(upds, LAMBDA u : IsSnakeMsg(u, "FullUpdateReq"))

\* C40: events a role does not expect on the snake's stream (FullUpdateReq for
\* the remote role, EndUpdate for a peer role, anything that is no SnakeMsg for
\* both) are consumed without effect: a frame does to the snake, and sends, what
\* it would on the expected events of its poll alone, in their order; so a frame
\* that polls unexpected events only changes no trail and no send time, sets no
\* flag and sends nothing for them.
C40_UnexpectedIgnored ==
    /\ lastFrame.by = "mirror" =>
          LET none == [j \in 1..Len(lastFrame.before.peers) |-> <<>>]
              r == Snake_think(lastFrame.before, ForRemote(lastFrame.upds), none,
                               IdleInput(Pos(0, 0), Pos(0, 0), mnow))
          IN /\ msnake = r.snake
             /\ lastFrame.sent = [j \in 1..Len(r.sent) |->
                                     Data(NetData(r.sent[j].stream_id, r.sent[j].msg))]
             /\ ForRemote(lastFrame.upds) = <<>> =>
                   /\ msnake.data.snake_points = lastFrame.before.data.snake_points
                   /\ ~msnake.data.points_changed
                   /\ lastFrame.sent = <<>>
    /\ (lastFrame.by = "owner" /\ ForPeer(lastFrame.upds) = <<>>) =>
          /\ Len(lastFrame.sent) <= 1
          /\ ~osnake.data.points_changed =>
                /\ lastFrame.sent = <<>>
                /\ osnake.data.snake_points = lastFrame.before.data.snake_points
                /\ osnake.peers = lastFrame.before.peers
    /\ \A k \in 0..Len(m2o), is_down \in BOOLEAN, mouse_pos \in Pts :
          \A cur \in OnWay(OwnTrail[Len(OwnTrail)], OwnTarget(osnake.data, is_down, mouse_pos)) :
              LET in == [is_down |-> is_down, mouse_pos |-> mouse_pos,
                         cur |-> cur, now |-> now + 1]
              IN Snake_think(osnake, <<>>, <<Upds(m2o, k)>>, in)
                    = Snake_think(osnake, <<>>, <<ForPeer(Upds(m2o, k))>>, in)

\* the mirror has just polled an unexpected event followed by a diff, and has
\* applied the diff; an EndUpdate waits on the stream of the owner's peer role
C40_Witness ==
    /\ lastFrame.by = "mirror"
    /\ Len(lastFrame.upds) = 2
    /\ lastFrame.upds[1] \in StrayToMirror
    /\ IsSnakeMsg(lastFrame.upds[2], "EndUpdate")
    /\ msnake.data.points_changed
    /\ msnake.data.snake_points # lastFrame.before.data.snake_points
    /\ m2o # <<>> /\ IsSnakeMsg(m2o[1].upd, "EndUpdate")

====
